---------------------------- MODULE Spec2Model ----------------------------
(***************************************************************************)
(* Verification model of squeeze2diretta: the lock-free audio ring         *)
(* (DirettaRingBuffer) and the Diretta sync adapter (DirettaSync) with its *)
(* worker callback, reconfigure epoch, format caches and lifecycle         *)
(* operations.                                                             *)
(*                                                                         *)
(* The module holds several specifications over one set of variables:      *)
(*   SpecRing      push / writeToRing and pop on the bare ring             *)
(*   SpecPlay      sendAudio and getBufferLevel against getNewStream on an *)
(*                 adapter that is playing                                 *)
(*   SpecCycle     the sizes of the getNewStream cycles of a PCM format    *)
(*   SpecData      SpecPlay's threads with the control calls that touch    *)
(*                 the ring of an open adapter (open of the same format,   *)
(*                 pausePlayback, resumePlayback)                          *)
(*   SpecEpoch     open() of a closed adapter: fullReset and the ring      *)
(*                 configuration under the reconfigure guard, against      *)
(*                 sendAudio and getNewStream                              *)
(*   SpecReopen    open() of another format through                        *)
(*                 reopenForFormatChange, against getNewStream             *)
(*   SpecLife      enable / open / close / release / disable with the      *)
(*                 worker thread and the SDK session                       *)
(*   SpecLifeFair  open() with a format change and disable() on a second   *)
(*                 thread, under fair scheduling of the threads            *)
(*   SpecBridge    the steady-state loop of the wrapper's main(): read()   *)
(*                 from the pipe and sendAudio, against getNewStream       *)
(*   SpecBurst     the burst-fill loop of main() after open(), the ring at *)
(*                 its full size, time counted in poll timeouts            *)
(*   SpecDsd       SpecReopen with DSD128 as the new format                *)
(*   SpecPlanar    pushDSDPlanarOptimized on inputs of several sizes, channel  *)
(*                 counts and modes, with more and with less free space        *)
(*   SpecStab      close() and a full open() of the playing adapter, then      *)
(*                 sendAudio on the same thread, against getNewStream          *)
(*                                                                         *)
(* Threads: "main" is the control thread that makes the lifecycle calls    *)
(* (in the wrapper, the thread of main()); the worker thread runs          *)
(* getNewStream; "aux" is a second control thread that only calls          *)
(* disable(), the one call the adapter provides for interrupting a         *)
(* format-transition wait.  sendAudio and getBufferLevel run on the        *)
(* producer: in SpecData, SpecBridge and SpecBurst strictly between the    *)
(* lifecycle calls, as the wrapper calls them; in SpecPlay and SpecEpoch   *)
(* as a thread of its own, which the adapter's guards are written for.     *)
(* Each specification leaves the variables it does not use unchanged.      *)
(*                                                                         *)
(* Threads take one step per atomic operation on shared state.  The SDK    *)
(* (DIRETTA::Sync) is outside the repository: its calls return             *)
(* nondeterministic results, it may invoke startSyncWorker() from inside   *)
(* open / connect / play, and its worker may call getNewStream() whenever  *)
(* the worker thread runs.                                                 *)
(***************************************************************************)
EXTENDS Integers, Sequences, FiniteSets, TLC

(***************************************************************************)
(* Bounds of the model                                                     *)
(***************************************************************************)
\* bytes requested from resize() in the bare-ring specification
RingRequest == 4
\* number of stream bytes the producer owns
MaxStream == 10
\* largest length handed to one push / pop call in the bare-ring specification
MaxOpLen == 3
\* the adapter's ring is scaled: every resize() request is capped at RingCap bytes
RingCap == 15
\* number of sendAudio calls one behaviour makes, per specification
PlaySends == 3
DataSends == 1
EpochSends == 1
\* largest numSamples handed to one sendAudio call
MaxSamples == 2
\* number of sendAudio calls in a behaviour of SpecStab
StabSends == 2
\* pushDSDPlanarOptimized: the input sizes, the largest channel count and the amounts
\* of free space tried (besides an empty ring)
DsdSizes == {0, 3, 16, 17, 24, 72, 136, 65552}
MaxChannels == 3
DsdFree == {0, 7, 8, 12, 70}
\* push24BitPacked: the sample counts of one call, the number of ring calls (pushes,
\* hints, clears) in a behaviour of SpecPack and the amounts of free space tried
PackSizes == {1, 65, 16000}
PackCalls == 5
PackFree == {2, 30, 200}
\* cap on the underrun counter
MaxUnderruns == 2
\* number of lifecycle calls one behaviour makes, per specification
DataCalls == 2
EpochCalls == 2
LifeCalls == 2
\* lifecycle calls in a behaviour of SpecLifeFair
FairCalls == 2
\* lifecycle calls in a behaviour of SpecReopen
ReopenCalls == 1
\* the shutdown-silence count is scaled: every request is capped at SilenceCap buffers
SilenceCap == 2
\* number of getNewStream cycles followed in the cycle-size specification
MaxCycles == 1040
\* frames per read of the bridge (CHUNK_SIZE, scaled)
BridgeFrames == 2
\* bytes squeezelite writes to the pipe before it closes it
PipeLen == 20
\* pipe bytes before the 4-byte magic of an in-band header: the magic is pipe bytes
\* HeaderAt + 1 .. HeaderAt + 4
HeaderAt == 4

(***************************************************************************)
(* Constants of the program                                                *)
(***************************************************************************)
AccumulatorModulus == 1000
POST_ONLINE_SILENCE_BUFFERS == 20
OPEN_RETRIES == 3
PcmSilence == 0
DsdSilence == 105
\* the wrapper: frames per read, the burst-fill timeout, its poll timeout, its silence chunk
CHUNK_SIZE == 2048
BURST_TIMEOUT_MS == 5000
POLL_MS == 50
SILENCE_CHUNK == 4096

(***************************************************************************)
(* Variables                                                               *)
(***************************************************************************)
VARIABLES
    size_,       \* DirettaRingBuffer::size_
    buffer_,     \* DirettaRingBuffer::buffer_ (index 0 .. size_-1)
    writePos_,   \* DirettaRingBuffer::writePos_
    readPos_,    \* DirettaRingBuffer::readPos_
    silenceByte_,\* DirettaRingBuffer::silenceByte_
    pack,        \* DirettaRingBuffer: m_s24PackMode, m_s24Hint, m_s24DetectionConfirmed,
                 \* m_deferredSampleCount
    prod,        \* producer thread: position in sendAudio()/push() and its locals
    cons,        \* worker thread: position in getNewStream()/pop() and its locals
    written,     \* number of stream bytes the push calls have reported as written
    popped,      \* every byte pop() has handed out, in order
    life,        \* m_enabled, m_sdkOpen, m_open, m_playing, m_paused, format tracking
    work,        \* m_running, m_workerActive, m_workerThread, m_workerMutex
    gate,        \* m_stopRequested, m_draining, prefill / stabilisation / silence state
    epoch,       \* m_reconfiguring, m_ringUsers, m_configMutex
    fmt,         \* the format atomics, the generation counters, the prefill target
    ccache,      \* the cached consumer state of getNewStream
    pcache,      \* the cached format values of sendAudio
    sdk,         \* the DIRETTA::Sync session as the adapter can observe it
    wake,        \* m_transitionMutex, m_transitionCv, m_transitionWakeup, the wait's timer
    ctl,         \* the control threads: position in the lifecycle call and its locals
    out,         \* what the last completed getNewStream cycle emitted
    hist,        \* observations kept for the properties
    bridge       \* the bridge's main loop: position, the chunk read from the pipe, totals

ringVars == <<size_, buffer_, writePos_, readPos_, silenceByte_, pack>>
dataVars == <<prod, cons, written, popped>>
adapterVars == <<life, work, gate, epoch, fmt, ccache, pcache, sdk, wake, ctl, out, hist>>
vars == <<size_, buffer_, writePos_, readPos_, silenceByte_, pack, prod, cons, written, popped,
          life, work, gate, epoch, fmt, ccache, pcache, sdk, wake, ctl, out, hist, bridge>>

Min(a, b) == IF a < b THEN a ELSE b
Max(a, b) == IF a > b THEN a ELSE b

(***************************************************************************)
(* DirettaRingBuffer: pure helpers                                         *)
(***************************************************************************)
RECURSIVE Pow2From(_, _)
Pow2From(result, value) ==
    IF result < value THEN Pow2From(result * 2, value) ELSE result

\* a size taken as requested
roundUpPow2_AsAsked(value) == IF value < 2 THEN 2 ELSE value
\* roundUpPow2
roundUpPow2(value) == IF value < 2 THEN 2 ELSE Pow2From(1, value)

\* (x & mask_) for a size_t x that may have wrapped below zero; size is 2^k
AndMask(x, size) == x % size

\* getAvailable() on loaded positions
AvailableOf(wp, rp, size) == IF size = 0 THEN 0 ELSE AndMask(wp - rp, size)

\* a free space that counts the slot kept empty
FreeSpaceOf_NoGap(wp, rp, size) == IF size = 0 THEN 0 ELSE AndMask(rp - wp, size)
\* getFreeSpace() on loaded positions
FreeSpaceOf(wp, rp, size) == IF size = 0 THEN 0 ELSE AndMask(rp - wp - 1, size)

getAvailable == AvailableOf(writePos_, readPos_, size_)
getFreeSpace == FreeSpaceOf(writePos_, readPos_, size_)

\* a free-space expression that forgets the slot kept empty
LinearFree_NoGap(wp, rp, size) ==
    IF rp > wp THEN rp - wp ELSE size - wp + rp

\* the free-space expression shared by getDirectWriteRegion and writeToRing
LinearFree(wp, rp, size) ==
    IF rp > wp THEN rp - wp - 1 ELSE size - wp + rp - 1

\* getDirectWriteRegion: contiguous bytes offered at wp
Contiguous(wp, rp, size) ==
    IF rp <= wp THEN size - wp ELSE rp - wp - 1

\* getDirectWriteRegion(needed): <<ok, available>>
getDirectWriteRegion(needed, wp, rp, size) ==
    IF size = 0 \/ needed = 0 THEN <<FALSE, 0>>
    ELSE IF LinearFree(wp, rp, size) < needed THEN <<FALSE, 0>>
    ELSE IF Contiguous(wp, rp, size) >= needed
         THEN <<TRUE, Contiguous(wp, rp, size)>>
         ELSE <<FALSE, 0>>

\* memcpy of the bytes src[from .. from+n-1] (1-based sequence) to buf[at ..]
CopyIn(buf, at, src, from, n) ==
    [i \in DOMAIN buf |->
        IF i >= at /\ i < at + n THEN src[from + (i - at)] ELSE buf[i]]

\* memcpy of n ring bytes starting at index at, as a sequence
CopyOut(buf, at, n) == [i \in 1..n |-> buf[at + i - 1]]

\* the i-th byte of the producer's source stream (all distinct, none a silence byte)
StreamByte(i) == i

\* the bridge's main loop when it is not followed: no chunk, the caller of sendAudio
\* is then one that passes the bytes after those already written
BridgeOff == [pc |-> "off", base |-> 0, len |-> 0, silent |-> FALSE, polls |-> 0,
              timeout |-> FALSE, total_bytes |-> 0]

\* where the data passed to the call begins in the source stream: after the bytes
\* written, or, from the bridge, at the start of the chunk it read from the pipe
SrcBase == IF bridge.pc = "off" THEN written ELSE bridge.base

\* the source bytes of one call: n bytes from SrcBase on, or n bytes of the bridge's
\* silence chunk
SrcOf(n) == [i \in 1..n |-> IF bridge.silent THEN 0 ELSE StreamByte(SrcBase + i)]

\* the ring as resize(newSize, silenceByte) leaves it
ResizedBuffer(newSize, silenceByte) ==
    [i \in 0..(roundUpPow2(newSize) - 1) |-> silenceByte]

\* the S24 state of a constructed or cleared ring
PackInit == [m_s24PackMode |-> "Unknown", m_s24Hint |-> "Unknown",
             m_s24DetectionConfirmed |-> FALSE, m_deferredSampleCount |-> 0]
ProdIdle == [pc |-> "idle", op |-> "none", n |-> 0, len |-> 0, wp |-> 0, first |-> 0,
             ret |-> 0, active |-> FALSE, fn |-> "none", free |-> 0, rp |-> 0]
ConsIdle == [pc |-> "idle", len |-> 0, rp |-> 0, first |-> 0, dest |-> <<>>,
             size |-> 0, sil |-> 0, active |-> FALSE,
             reopen |-> FALSE]

(***************************************************************************)
(* DirettaRingBuffer: push, writeToRing, pop, one step per atomic access   *)
(***************************************************************************)
\* push(data, len): entry, size_ check, getFreeSpace(), truncation
PushEnter(from, n) ==
    /\ prod.pc = from
    /\ LET free == getFreeSpace
           len  == IF n > free THEN free ELSE n
           call == [prod EXCEPT !.fn = "push", !.n = n, !.free = free, !.rp = readPos_]
       IN  prod' = IF size_ = 0 \/ len = 0
                   THEN [call EXCEPT !.pc = "push_ret", !.ret = 0, !.len = 0]
                   ELSE [call EXCEPT !.pc = "push_region", !.len = len]
    /\ UNCHANGED <<bridge, ringVars, cons, written, popped, adapterVars>>

\* push: getDirectWriteRegion(); on success the memcpy into the region
PushRegion ==
    /\ prod.pc = "push_region"
    /\ LET r == getDirectWriteRegion(prod.len, writePos_, readPos_, size_)
       IN  IF r[1]
           THEN /\ buffer_' = CopyIn(buffer_, writePos_, SrcOf(prod.len), 1, prod.len)
                /\ prod' = [prod EXCEPT !.pc = "push_commit"]
           ELSE /\ buffer_' = buffer_
                /\ prod' = [prod EXCEPT !.pc = "push_slow"]
    /\ UNCHANGED <<bridge, size_, writePos_, readPos_, silenceByte_, pack, cons, written, popped,
                   adapterVars>>

\* push: commitDirectWrite(len) and return len
PushCommit ==
    /\ prod.pc = "push_commit"
    /\ writePos_' = AndMask(writePos_ + prod.len, size_)
    /\ written' = written + prod.len
    /\ prod' = [prod EXCEPT !.pc = "push_ret", !.ret = prod.len]
    /\ UNCHANGED <<bridge, size_, buffer_, readPos_, silenceByte_, pack, cons, popped, adapterVars>>

\* push, slow path: load writePos_, copy the first chunk
PushSlowFirst ==
    /\ prod.pc = "push_slow"
    /\ LET wp == writePos_
           firstChunk == Min(prod.len, size_ - wp)
       IN  /\ buffer_' = CopyIn(buffer_, wp, SrcOf(prod.len), 1, firstChunk)
           /\ prod' = [prod EXCEPT !.pc = "push_slow2", !.wp = wp, !.first = firstChunk]
    /\ UNCHANGED <<bridge, size_, writePos_, readPos_, silenceByte_, pack, cons, written, popped,
                   adapterVars>>

\* push, slow path: copy the wrapped chunk
PushSlowSecond ==
    /\ prod.pc = "push_slow2"
    /\ buffer_' = IF prod.first < prod.len
                  THEN CopyIn(buffer_, 0, SrcOf(prod.len), prod.first + 1,
                              prod.len - prod.first)
                  ELSE buffer_
    /\ prod' = [prod EXCEPT !.pc = "push_store"]
    /\ UNCHANGED <<bridge, size_, writePos_, readPos_, silenceByte_, pack, cons, written, popped,
                   adapterVars>>

\* push, slow path: store writePos_, return len
PushSlowStore ==
    /\ prod.pc = "push_store"
    /\ writePos_' = AndMask(prod.wp + prod.len, size_)
    /\ written' = written + prod.len
    /\ prod' = [prod EXCEPT !.pc = "push_ret", !.ret = prod.len]
    /\ UNCHANGED <<bridge, size_, buffer_, readPos_, silenceByte_, pack, cons, popped, adapterVars>>

\* writeToRing(staged, len): load both positions, truncate, copy the first chunk
WriteToRingEnter(from, n) ==
    /\ prod.pc = from
    /\ LET wp == writePos_
           available == LinearFree(wp, readPos_, size_)
           len == IF n > available THEN available ELSE n
           firstChunk == Min(len, size_ - wp)
           call == [prod EXCEPT !.fn = "writeToRing", !.n = n, !.free = available,
                                !.rp = readPos_]
       IN  IF size_ = 0 \/ len = 0
           THEN /\ prod' = [call EXCEPT !.pc = "push_ret", !.ret = 0, !.len = 0]
                /\ buffer_' = buffer_
           ELSE /\ buffer_' = CopyIn(buffer_, wp, SrcOf(len), 1, firstChunk)
                /\ prod' = [call EXCEPT !.pc = "wtr_second", !.len = len, !.wp = wp,
                                        !.first = firstChunk]
    /\ UNCHANGED <<bridge, size_, writePos_, readPos_, silenceByte_, pack, cons, written, popped,
                   adapterVars>>

\* writeToRing: copy the second chunk
WriteToRingSecond ==
    /\ prod.pc = "wtr_second"
    /\ buffer_' = IF prod.len - prod.first > 0
                  THEN CopyIn(buffer_, 0, SrcOf(prod.len), prod.first + 1,
                              prod.len - prod.first)
                  ELSE buffer_
    /\ prod' = [prod EXCEPT !.pc = "wtr_store"]
    /\ UNCHANGED <<bridge, size_, writePos_, readPos_, silenceByte_, pack, cons, written, popped,
                   adapterVars>>

\* writeToRing: publish the new write position and return len
WriteToRingStore ==
    /\ prod.pc = "wtr_store"
    /\ writePos_' = AndMask(prod.wp + prod.len, size_)
    /\ written' = written + prod.len
    /\ prod' = [prod EXCEPT !.pc = "push_ret", !.ret = prod.len]
    /\ UNCHANGED <<bridge, size_, buffer_, readPos_, silenceByte_, pack, cons, popped, adapterVars>>

\* pop(dest, len): entry, getAvailable(), truncation
PopEnter(from, n) ==
    /\ cons.pc = from
    /\ LET avail == getAvailable
           len == IF n > avail THEN avail ELSE n
       IN  cons' = IF size_ = 0 \/ len = 0
                   THEN [cons EXCEPT !.pc = "pop_ret", !.len = 0, !.dest = <<>>]
                   ELSE [cons EXCEPT !.pc = "pop_first", !.len = len]
    /\ UNCHANGED <<bridge, ringVars, prod, written, popped, adapterVars>>

\* pop: load readPos_, copy the first chunk out
PopFirst ==
    /\ cons.pc = "pop_first"
    /\ LET rp == readPos_
           firstChunk == Min(cons.len, size_ - rp)
       IN  cons' = [cons EXCEPT !.pc = "pop_second", !.rp = rp, !.first = firstChunk,
                                !.dest = CopyOut(buffer_, rp, firstChunk)]
    /\ UNCHANGED <<bridge, ringVars, prod, written, popped, adapterVars>>

\* pop: copy the wrapped chunk out
PopSecond ==
    /\ cons.pc = "pop_second"
    /\ cons' = [cons EXCEPT !.pc = "pop_store",
                  !.dest = IF cons.first < cons.len
                           THEN cons.dest \o CopyOut(buffer_, 0, cons.len - cons.first)
                           ELSE cons.dest]
    /\ UNCHANGED <<bridge, ringVars, prod, written, popped, adapterVars>>

\* pop: publish the new read position and return len
PopStore ==
    /\ cons.pc = "pop_store"
    /\ readPos_' = AndMask(cons.rp + cons.len, size_)
    /\ popped' = IF hist.keep THEN popped \o cons.dest ELSE popped
    /\ cons' = [cons EXCEPT !.pc = "pop_ret"]
    /\ UNCHANGED <<bridge, size_, buffer_, writePos_, silenceByte_, pack, prod, written, adapterVars>>

(***************************************************************************)
(* DirettaRingBuffer: the direct write API used by a caller of its own      *)
(***************************************************************************)
\* getDirectWriteRegion(needed, region, available): on success the caller holds the
\* region at writePos_ and the count of contiguous bytes it was told
DirectRegion(needed) ==
    /\ prod.pc = "idle"
    /\ LET r == getDirectWriteRegion(needed, writePos_, readPos_, size_)
           call == [prod EXCEPT !.fn = "direct", !.n = needed, !.wp = writePos_,
                                !.rp = readPos_]
       IN  prod' = IF r[1]
                   THEN [call EXCEPT !.pc = "dw_write", !.free = r[2]]
                   ELSE [call EXCEPT !.pc = "push_ret", !.ret = 0]
    /\ UNCHANGED <<bridge, ringVars, cons, written, popped, adapterVars>>

\* the caller writes into the region: any count up to available
DirectWrite(w) ==
    /\ prod.pc = "dw_write"
    /\ w <= prod.free
    /\ buffer_' = CopyIn(buffer_, prod.wp, SrcOf(w), 1, w)
    /\ prod' = [prod EXCEPT !.pc = "dw_commit", !.len = w]
    /\ UNCHANGED <<bridge, size_, writePos_, readPos_, silenceByte_, pack, cons, written, popped,
                   adapterVars>>

\* commitDirectWrite(written)
DirectCommit ==
    /\ prod.pc = "dw_commit"
    /\ writePos_' = IF prod.len = 0 \/ size_ = 0 THEN writePos_
                    ELSE AndMask(writePos_ + prod.len, size_)
    /\ written' = written + prod.len
    /\ prod' = [prod EXCEPT !.pc = "push_ret", !.ret = prod.len]
    /\ UNCHANGED <<bridge, size_, buffer_, readPos_, silenceByte_, pack, cons, popped, adapterVars>>

(***************************************************************************)
(* DirettaSync: the state the constructor leaves                           *)
(***************************************************************************)
\* AudioFormat values
NoFormat == [sampleRate |-> 0, bitDepth |-> 0, channels |-> 0, isDSD |-> FALSE]
PCM44 == [sampleRate |-> 44100, bitDepth |-> 16, channels |-> 2, isDSD |-> FALSE]
DSD64 == [sampleRate |-> 2822400, bitDepth |-> 1, channels |-> 2, isDSD |-> TRUE]
\* a low-rate mono format whose cycles are small enough to follow byte by byte
PCM1k == [sampleRate |-> 1000, bitDepth |-> 16, channels |-> 1, isDSD |-> FALSE]
\* the same at twice the rate, whose cycles take two frames
PCM2k == [sampleRate |-> 2000, bitDepth |-> 16, channels |-> 1, isDSD |-> FALSE]

Threads == {"main", "aux"}

LifeInit == [m_enabled |-> FALSE, m_sdkOpen |-> FALSE, m_open |-> FALSE,
             m_playing |-> FALSE, m_paused |-> FALSE,
             m_hasPreviousFormat |-> FALSE, m_previousFormat |-> PCM44]
WorkInit == [m_running |-> FALSE, m_workerActive |-> FALSE, thread |-> "none",
             m_workerMutex |-> "free"]
GateInit == [m_stopRequested |-> FALSE, m_draining |-> FALSE,
             m_silenceBuffersRemaining |-> 0, m_prefillComplete |-> FALSE,
             m_postOnlineDelayDone |-> FALSE, m_stabilizationCount |-> 0,
             m_underrunCount |-> 0]
EpochInit == [m_reconfiguring |-> FALSE, m_ringUsers |-> 0, pending |-> FALSE,
              m_configMutex |-> "free"]
FmtInit == [m_sampleRate |-> 44100, m_channels |-> 2, m_bytesPerSample |-> 2,
            m_inputBytesPerSample |-> 2, m_bytesPerBuffer |-> 176, m_bytesPerFrame |-> 0,
            m_framesPerBufferRemainder |-> 0, m_framesPerBufferAccumulator |-> 0,
            m_need24BitPack |-> FALSE, m_need16To32Upsample |-> FALSE,
            m_need16To24Upsample |-> FALSE, m_isDsdMode |-> FALSE,
            m_formatGeneration |-> 0, m_consumerStateGen |-> 0,
            m_prefillTarget |-> 0, m_prefillTargetBuffers |-> 0]
CCacheInit == [m_cachedConsumerGen |-> 0, m_cachedBytesPerBuffer |-> 176,
               m_cachedSilenceByte |-> 0, m_cachedConsumerIsDsd |-> FALSE,
               m_cachedConsumerSampleRate |-> 44100, m_cachedBytesPerFrame |-> 0,
               m_cachedFramesPerBufferRemainder |-> 0]
PCacheInit == [m_cachedFormatGen |-> 0, m_cachedDsdMode |-> FALSE,
               m_cachedPack24bit |-> FALSE, m_cachedUpsample16to32 |-> FALSE,
               m_cachedUpsample16to24 |-> FALSE, m_cachedChannels |-> 2,
               m_cachedBytesPerSample |-> 2]
\* the SDK session: opened, connected, playing, online, and the PCM widths the sink takes
SdkInit(bits) == [open |-> FALSE, conn |-> FALSE, play |-> FALSE, online |-> FALSE,
                  sinkBits |-> bits]
WakeInit == [m_transitionWakeup |-> FALSE, m_transitionMutex |-> "free",
             expired |-> FALSE]
\* a control thread outside any call; disconnected: the call in progress has called
\* disconnect() on a failure of its connect sequence
CtlIdle == [pc |-> "idle", format |-> NoFormat, after |-> "idle", kind |-> "none",
            ret |-> "none", bits |-> 0, n |-> 0, disconnected |-> FALSE]
CtlInit == [t \in Threads |-> CtlIdle]
OutInit == [kind |-> "none", byte |-> 0, size |-> 0, reopen |-> FALSE]
\* what the model keeps of the past: the sizes of the last cycles (if record), the
\* popped bytes (if keep), the budgets of lifecycle and sendAudio calls, and (if
\* track) whether a full open() has returned (full) and the number of silence cycles
\* emitted since then by cycles that held the ring guard and found m_prefillComplete
\* true (stab), and the S24 layout confirmed first since the ring was last cleared
\* (decided), and (if track) the bytes pushed before the last clear began (mark)
HistInit == [record |-> FALSE, keep |-> TRUE, sizes |-> <<>>, cycles |-> 0, calls |-> 0,
             sends |-> 0, track |-> FALSE, full |-> FALSE, stab |-> 0,
             decided |-> "none", mark |-> 0]

\* a clear() or resize() of the ring begins: if track, remember how many bytes the
\* producer had pushed by then
MarkClear == hist' = IF hist.track THEN [hist EXCEPT !.mark = written] ELSE hist

\* DirettaSync::DirettaSync(): m_ringBuffer.resize(44100 * 2 * 4, 0x00), scaled
Constructed(bits) ==
    /\ size_ = roundUpPow2(Min(44100 * 2 * 4, RingCap))
    /\ buffer_ = ResizedBuffer(Min(44100 * 2 * 4, RingCap), PcmSilence)
    /\ writePos_ = 0
    /\ readPos_ = 0
    /\ silenceByte_ = PcmSilence
    /\ pack = PackInit
    /\ prod = ProdIdle
    /\ cons = ConsIdle
    /\ written = 0
    /\ popped = <<>>
    /\ life = LifeInit
    /\ work = WorkInit
    /\ gate = GateInit
    /\ epoch = EpochInit
    /\ fmt = FmtInit
    /\ ccache = CCacheInit
    /\ pcache = PCacheInit
    /\ sdk = SdkInit(bits)
    /\ wake = WakeInit
    /\ ctl = CtlInit
    /\ out = OutInit

(***************************************************************************)
(* SpecRing: one producer and one consumer on a ring of RingRequest bytes  *)
(***************************************************************************)
InitRing ==
    /\ size_ = roundUpPow2(RingRequest)
    /\ buffer_ = ResizedBuffer(RingRequest, PcmSilence)
    /\ writePos_ = 0
    /\ readPos_ = 0
    /\ silenceByte_ = PcmSilence
    /\ pack = PackInit
    /\ prod = ProdIdle
    /\ cons = ConsIdle
    /\ written = 0
    /\ popped = <<>>
    /\ life = LifeInit
    /\ work = WorkInit
    /\ gate = GateInit
    /\ epoch = EpochInit
    /\ fmt = FmtInit
    /\ ccache = CCacheInit
    /\ pcache = PCacheInit
    /\ sdk = SdkInit({32})
    /\ wake = WakeInit
    /\ ctl = CtlInit
    /\ out = OutInit
    /\ hist = HistInit
    /\ bridge = BridgeOff

PushCall == \E n \in 1..MaxOpLen : written + n <= MaxStream /\ PushEnter("idle", n)
WriteToRingCall ==
    \E n \in 1..MaxOpLen : written + n <= MaxStream /\ WriteToRingEnter("idle", n)
PopCall == \E n \in 1..MaxOpLen : PopEnter("idle", n)

\* the caller of push / writeToRing takes the returned count
PushReturn ==
    /\ prod.pc = "push_ret"
    /\ prod' = ProdIdle
    /\ UNCHANGED <<bridge, ringVars, cons, written, popped, adapterVars>>

\* the caller of pop takes the returned count
PopReturn ==
    /\ cons.pc = "pop_ret"
    /\ cons' = ConsIdle
    /\ UNCHANGED <<bridge, ringVars, prod, written, popped, adapterVars>>

NextRing ==
    \/ PushCall
    \/ PushRegion
    \/ PushCommit
    \/ PushSlowFirst
    \/ PushSlowSecond
    \/ PushSlowStore
    \/ PushReturn
    \/ WriteToRingCall
    \/ WriteToRingSecond
    \/ WriteToRingStore
    \/ PopCall
    \/ PopFirst
    \/ PopSecond
    \/ PopStore
    \/ PopReturn

SpecRing == InitRing /\ [][NextRing]_vars

(***************************************************************************)
(* SpecDirect: a producer that uses getDirectWriteRegion / commitDirectWrite*)
(* itself, and a consumer, on a ring of RingRequest bytes                   *)
(***************************************************************************)
DirectCall == \E needed \in 1..MaxOpLen : DirectRegion(needed)
DirectFill ==
    \E w \in 0..roundUpPow2(RingRequest) : written + w <= MaxStream /\ DirectWrite(w)

NextDirect ==
    \/ DirectCall
    \/ DirectFill
    \/ DirectCommit
    \/ PushReturn
    \/ PopCall
    \/ PopFirst
    \/ PopSecond
    \/ PopStore
    \/ PopReturn

SpecDirect == InitRing /\ [][NextDirect]_vars

(***************************************************************************)
(* SpecOcc: the producer and the consumer of SpecRing on a ring that is     *)
(* resized and cleared between their calls                                  *)
(***************************************************************************)
\* the largest size asked of resize
OccRequest == 8

\* resize(newSize, silenceByte), with its clear() and fillWithSilence(); the
\* history of pushed and popped bytes starts again with the emptied ring
RingResize(newSize, silenceByte) ==
    /\ prod.pc = "idle"
    /\ cons.pc = "idle"
    /\ size_' = roundUpPow2(newSize)
    /\ buffer_' = ResizedBuffer(newSize, silenceByte)
    /\ silenceByte_' = silenceByte
    /\ writePos_' = 0
    /\ readPos_' = 0
    /\ pack' = PackInit
    /\ written' = 0
    /\ popped' = <<>>
    /\ UNCHANGED <<bridge, prod, cons, adapterVars>>

\* clear(); the history starts again
RingReset ==
    /\ prod.pc = "idle"
    /\ cons.pc = "idle"
    /\ writePos_' = 0
    /\ readPos_' = 0
    /\ pack' = PackInit
    /\ written' = 0
    /\ popped' = <<>>
    /\ UNCHANGED <<bridge, size_, buffer_, silenceByte_, prod, cons, adapterVars>>

ResizeCall ==
    \E newSize \in 0..OccRequest, silenceByte \in {PcmSilence, DsdSilence} :
        RingResize(newSize, silenceByte)

NextOcc ==
    \/ NextRing
    \/ ResizeCall
    \/ RingReset

SpecOcc == InitRing /\ [][NextOcc]_vars

(***************************************************************************)
(* DirettaSync::getNewStream, called by the SDK on the worker thread       *)
(***************************************************************************)
\* the cycle's output: memset(dest, currentSilenceByte, currentBytesPerBuffer)
Silence(c) == [kind |-> "silence", byte |-> c.sil, size |-> c.size, reopen |-> c.reopen]
\* the cycle's output after pop(dest, currentBytesPerBuffer): the bytes popped
Audio(c) == [kind |-> "audio", byte |-> c.sil, size |-> c.size, reopen |-> c.reopen]

\* the cold path of getNewStream: reload of the cached consumer state
ReloadConsumer(gen) ==
    [m_cachedConsumerGen |-> gen,
     m_cachedBytesPerBuffer |-> fmt.m_bytesPerBuffer,
     m_cachedSilenceByte |-> silenceByte_,
     m_cachedConsumerIsDsd |-> fmt.m_isDsdMode,
     m_cachedConsumerSampleRate |-> fmt.m_sampleRate,
     m_cachedBytesPerFrame |-> fmt.m_bytesPerFrame,
     m_cachedFramesPerBufferRemainder |-> fmt.m_framesPerBufferRemainder]

\* the value the accumulator reaches before the comparison with 1000
AccumulatorSum(c) == fmt.m_framesPerBufferAccumulator + c.m_cachedFramesPerBufferRemainder
\* a comparison that misses the cycle on which the accumulator lands on 1000
CarriesFrame_Strict(acc) == acc > AccumulatorModulus
\* whether this cycle carries one extra frame
CarriesFrame(acc) == acc >= AccumulatorModulus

\* currentBytesPerBuffer of this cycle
CycleBytes(c) ==
    IF c.m_cachedFramesPerBufferRemainder # 0 /\ CarriesFrame(AccumulatorSum(c))
    THEN c.m_cachedBytesPerBuffer + c.m_cachedBytesPerFrame
    ELSE c.m_cachedBytesPerBuffer

\* the accumulator value stored back by this cycle
CycleAccumulator(c) ==
    IF c.m_cachedFramesPerBufferRemainder = 0 THEN fmt.m_framesPerBufferAccumulator
    ELSE IF CarriesFrame(AccumulatorSum(c)) THEN AccumulatorSum(c) - AccumulatorModulus
    ELSE AccumulatorSum(c)

\* the sizes of the last 1000 cycles
Remember(sizes, s) ==
    IF Len(sizes) = AccumulatorModulus THEN Tail(sizes) \o <<s>> ELSE sizes \o <<s>>

\* the labels of open() on the reopenForFormatChange() path up to the return of
\* DIRETTA::Sync::open in reopenForFormatChange()
BeforeReopen == {"idle", "op_ret", "open_cmp", "td_stop", "td_running", "td_lock",
                 "td_join", "td_close", "td_reopen", "iw_lock", "iw_test", "iw_blocked",
                 "iw_relock"}
\* whether the main control thread is in open() on the reopenForFormatChange() path
\* with the SDK reopened and open() not yet returned
ReopenWindow == ctl["main"].kind = "reopen" /\ ctl["main"].pc \notin BeforeReopen

\* the worker thread's loop test: while (m_running.load())
WorkerLoop ==
    /\ work.thread = "running"
    /\ cons.pc = "idle"
    /\ IF work.m_running
       THEN /\ cons' = [cons EXCEPT !.pc = "sync"]
            /\ work' = work
       ELSE /\ work' = [work EXCEPT !.thread = "exited"]
            /\ cons' = cons
    /\ UNCHANGED <<bridge, ringVars, prod, written, popped, life, gate, epoch, fmt, ccache, pcache,
                   sdk, wake, ctl, out, hist>>

\* syncWorker() returns without asking for a stream
SyncWorkerIdle ==
    /\ cons.pc = "sync"
    /\ cons' = [cons EXCEPT !.pc = "idle"]
    /\ UNCHANGED <<bridge, ringVars, prod, written, popped, adapterVars>>

\* getNewStream entry: m_workerActive, generation check with reload, accumulator,
\* currentBytesPerBuffer
CycleBegin ==
    /\ cons.pc = "sync"
    /\ gate.m_underrunCount < MaxUnderruns
    /\ hist.cycles < MaxCycles
    /\ LET gen == fmt.m_consumerStateGen
           c == IF gen # ccache.m_cachedConsumerGen THEN ReloadConsumer(gen) ELSE ccache
       IN  /\ ccache' = c
           /\ fmt' = [fmt EXCEPT !.m_framesPerBufferAccumulator = CycleAccumulator(c)]
           /\ cons' = [ConsIdle EXCEPT !.pc = "g1", !.size = CycleBytes(c),
                                       !.sil = c.m_cachedSilenceByte,
                                       !.reopen = ReopenWindow]
           /\ hist' = IF hist.record
                      THEN [hist EXCEPT !.sizes = Remember(hist.sizes, CycleBytes(c)),
                                        !.cycles = hist.cycles + 1]
                      ELSE hist
    /\ work' = [work EXCEPT !.m_workerActive = TRUE]
    /\ UNCHANGED <<bridge, ringVars, prod, written, popped, life, gate, epoch, pcache, sdk, wake,
                   ctl, out>>

\* the cycle returns: m_workerActive = false, then ~RingAccessGuard
CycleReturn(o) ==
    /\ out' = o
    /\ hist' = IF /\ hist.track /\ hist.full /\ cons.active
                  /\ gate.m_prefillComplete /\ o.kind = "silence"
               THEN [hist EXCEPT !.stab = hist.stab + 1]
               ELSE hist
    /\ work' = [work EXCEPT !.m_workerActive = FALSE]
    /\ cons' = [cons EXCEPT !.pc = "idle", !.active = FALSE]

\* RingAccessGuard constructor, first load of reconfiguring_; an inactive guard
\* makes the cycle emit silence
CycleGuardLoad ==
    /\ cons.pc = "g1"
    /\ IF epoch.m_reconfiguring
       THEN CycleReturn(Silence(cons))
       ELSE /\ cons' = [cons EXCEPT !.pc = "g2"]
            /\ UNCHANGED <<out, work, hist>>
    /\ UNCHANGED <<bridge, ringVars, prod, written, popped, life, gate, epoch, fmt, ccache, pcache,
                   sdk, wake, ctl>>

\* RingAccessGuard constructor: users_.fetch_add(1)
CycleGuardEnter ==
    /\ cons.pc = "g2"
    /\ epoch' = [epoch EXCEPT !.m_ringUsers = epoch.m_ringUsers + 1]
    /\ cons' = [cons EXCEPT !.pc = "g3"]
    /\ UNCHANGED <<bridge, ringVars, prod, written, popped, life, work, gate, fmt, ccache, pcache,
                   sdk, wake, ctl, out, hist>>

\* RingAccessGuard constructor: second load of reconfiguring_
CycleGuardRecheck ==
    /\ cons.pc = "g3"
    /\ cons' = IF epoch.m_reconfiguring
               THEN [cons EXCEPT !.pc = "g_bail"]
               ELSE [cons EXCEPT !.pc = "gates", !.active = TRUE]
    /\ UNCHANGED <<bridge, ringVars, prod, written, popped, adapterVars>>

\* RingAccessGuard constructor bail-out: users_.fetch_sub(1); the cycle emits silence
CycleGuardBail ==
    /\ cons.pc = "g_bail"
    /\ epoch' = [epoch EXCEPT !.m_ringUsers = epoch.m_ringUsers - 1]
    /\ CycleReturn(Silence(cons))
    /\ UNCHANGED <<bridge, ringVars, prod, written, popped, life, gate, fmt, ccache, pcache, sdk,
                   wake, ctl>>

\* m_effectiveMTU as constructed and DirettaCycleCalculator::OVERHEAD
DefaultMTU == 1500
OVERHEAD == 48

\* a stabilisation that ends one cycle early for PCM
StabilizationTarget_Short(isDsd, rate) ==
    IF ~isDsd THEN POST_ONLINE_SILENCE_BUFFERS - 1 ELSE 50
\* stabilizationTarget of the post-online stabilisation
StabilizationTarget(isDsd, rate) ==
    IF ~isDsd THEN POST_ONLINE_SILENCE_BUFFERS
    ELSE LET targetWarmupMs == 50 * Max(1, rate \div 2822400)
             num == targetWarmupMs * rate
             den == (DefaultMTU - OVERHEAD) * 4000
             buffersNeeded == (num + den - 1) \div den
         IN  Max(50, Min(buffersNeeded, 3000))

\* getNewStream with an active guard: shutdown silence, stop requested, prefill not
\* complete, post-online stabilisation
CycleGates ==
    /\ cons.pc = "gates"
    /\ IF gate.m_silenceBuffersRemaining > 0
       THEN /\ gate' = [gate EXCEPT !.m_silenceBuffersRemaining =
                                        gate.m_silenceBuffersRemaining - 1]
            /\ epoch' = [epoch EXCEPT !.m_ringUsers = epoch.m_ringUsers - 1]
            /\ CycleReturn(Silence(cons))
       ELSE IF gate.m_stopRequested \/ ~gate.m_prefillComplete
       THEN /\ gate' = gate
            /\ epoch' = [epoch EXCEPT !.m_ringUsers = epoch.m_ringUsers - 1]
            /\ CycleReturn(Silence(cons))
       ELSE IF ~gate.m_postOnlineDelayDone
       THEN /\ LET count == gate.m_stabilizationCount + 1
               IN  gate' = IF count >= StabilizationTarget(ccache.m_cachedConsumerIsDsd,
                                                           ccache.m_cachedConsumerSampleRate)
                           THEN [gate EXCEPT !.m_postOnlineDelayDone = TRUE,
                                             !.m_stabilizationCount = 0]
                           ELSE [gate EXCEPT !.m_stabilizationCount = count]
            /\ epoch' = [epoch EXCEPT !.m_ringUsers = epoch.m_ringUsers - 1]
            /\ CycleReturn(Silence(cons))
       ELSE /\ cons' = [cons EXCEPT !.pc = "avail"]
            /\ UNCHANGED <<gate, epoch, out, work, hist>>
    /\ UNCHANGED <<bridge, ringVars, prod, written, popped, life, fmt, ccache, pcache, sdk, wake,
                   ctl>>

\* an underrun test that lets a partly filled ring through
IsUnderrun_EmptyOnly(avail, bytes) == avail = 0
\* whether the cycle is an underrun
IsUnderrun(avail, bytes) == avail < bytes

\* getNewStream: getAvailable(); an underrun counts and emits silence
CycleAvail ==
    /\ cons.pc = "avail"
    /\ IF IsUnderrun(getAvailable, cons.size)
       THEN /\ gate' = [gate EXCEPT !.m_underrunCount = gate.m_underrunCount + 1]
            /\ epoch' = [epoch EXCEPT !.m_ringUsers = epoch.m_ringUsers - 1]
            /\ CycleReturn(Silence(cons))
       ELSE /\ cons' = [cons EXCEPT !.pc = "pop"]
            /\ UNCHANGED <<gate, epoch, out, work, hist>>
    /\ UNCHANGED <<bridge, ringVars, prod, written, popped, life, fmt, ccache, pcache, sdk, wake,
                   ctl>>

\* getNewStream: m_ringBuffer.pop(dest, currentBytesPerBuffer)
CyclePop == PopEnter("pop", cons.size)

\* getNewStream after pop: notify the producer, return
CycleEnd ==
    /\ cons.pc = "pop_ret"
    /\ epoch' = [epoch EXCEPT !.m_ringUsers = epoch.m_ringUsers - 1]
    /\ CycleReturn(Audio(cons))
    /\ UNCHANGED <<bridge, ringVars, prod, written, popped, life, gate, fmt, ccache, pcache, sdk,
                   wake, ctl>>

(***************************************************************************)
(* DirettaSync::sendAudio and getBufferLevel, on the producer thread       *)
(***************************************************************************)
\* the cold path of sendAudio: reload of the cached format values
ReloadProducer(gen) ==
    [m_cachedFormatGen |-> gen,
     m_cachedDsdMode |-> fmt.m_isDsdMode,
     m_cachedPack24bit |-> fmt.m_need24BitPack,
     m_cachedUpsample16to32 |-> fmt.m_need16To32Upsample,
     m_cachedUpsample16to24 |-> fmt.m_need16To24Upsample,
     m_cachedChannels |-> fmt.m_channels,
     m_cachedBytesPerSample |-> fmt.m_bytesPerSample]

\* which push variant sendAudio dispatches to
PushVariant(p) ==
    IF p.m_cachedDsdMode THEN "dsd"
    ELSE IF p.m_cachedPack24bit THEN "pack24"
    ELSE IF p.m_cachedUpsample16to32 THEN "16to32"
    ELSE IF p.m_cachedUpsample16to24 THEN "16to24"
    ELSE "direct"

\* totalBytes of the call
TotalBytes(p, numSamples) ==
    IF p.m_cachedDsdMode THEN (numSamples * p.m_cachedChannels) \div 8
    ELSE IF p.m_cachedPack24bit THEN numSamples * 4 * p.m_cachedChannels
    ELSE IF p.m_cachedUpsample16to32 \/ p.m_cachedUpsample16to24
         THEN numSamples * 2 * p.m_cachedChannels
    ELSE numSamples * p.m_cachedBytesPerSample * p.m_cachedChannels

\* sendAudio(data, numSamples): entry
SendEnter(numSamples) ==
    /\ prod.pc = "idle"
    /\ hist.sends > 0
    /\ hist' = [hist EXCEPT !.sends = hist.sends - 1]
    /\ prod' = [ProdIdle EXCEPT !.pc = "sa_drain", !.op = "send", !.n = numSamples]
    /\ UNCHANGED <<bridge, ringVars, cons, written, popped, life, work, gate, epoch, fmt, ccache,
                   pcache, sdk, wake, ctl, out>>

\* a gate of sendAudio that is closed returns 0, an open one passes to the next test
Gate(closed, next) ==
    prod' = IF closed THEN [prod EXCEPT !.pc = "sa_ret", !.ret = 0, !.n = 0]
            ELSE [prod EXCEPT !.pc = next]

\* the value sendAudio sees in m_draining
DrainingSeen_Never == FALSE
DrainingSeen == gate.m_draining

\* if (m_draining.load()) return 0
SendGateDraining ==
    /\ prod.pc = "sa_drain"
    /\ Gate(DrainingSeen, "sa_stop")
    /\ UNCHANGED <<bridge, ringVars, cons, written, popped, adapterVars>>

\* if (m_stopRequested.load()) return 0
SendGateStop ==
    /\ prod.pc = "sa_stop"
    /\ Gate(gate.m_stopRequested, "sa_online")
    /\ UNCHANGED <<bridge, ringVars, cons, written, popped, adapterVars>>

\* if (!is_online()) return 0
SendGateOnline ==
    /\ prod.pc = "sa_online"
    /\ Gate(~sdk.online, "g1")
    /\ UNCHANGED <<bridge, ringVars, cons, written, popped, adapterVars>>

SendCall == \E numSamples \in 1..MaxSamples : SendEnter(numSamples)

\* getBufferLevel(): entry
LevelCall ==
    /\ prod.pc = "idle"
    /\ prod' = [ProdIdle EXCEPT !.pc = "g1", !.op = "level"]
    /\ UNCHANGED <<bridge, ringVars, cons, written, popped, adapterVars>>

\* RingAccessGuard constructor, first load of reconfiguring_; inactive returns 0
SendGuardLoad ==
    /\ prod.pc = "g1"
    /\ prod' = IF epoch.m_reconfiguring
               THEN [prod EXCEPT !.pc = "sa_ret", !.ret = 0]
               ELSE [prod EXCEPT !.pc = "g2"]
    /\ UNCHANGED <<bridge, ringVars, cons, written, popped, adapterVars>>

\* RingAccessGuard constructor: users_.fetch_add(1)
SendGuardEnter ==
    /\ prod.pc = "g2"
    /\ epoch' = [epoch EXCEPT !.m_ringUsers = epoch.m_ringUsers + 1]
    /\ prod' = [prod EXCEPT !.pc = "g3"]
    /\ UNCHANGED <<bridge, ringVars, cons, written, popped, life, work, gate, fmt, ccache, pcache,
                   sdk, wake, ctl, out, hist>>

\* RingAccessGuard constructor: second load of reconfiguring_
SendGuardRecheck ==
    /\ prod.pc = "g3"
    /\ prod' = IF epoch.m_reconfiguring
               THEN [prod EXCEPT !.pc = "g_bail"]
               ELSE [prod EXCEPT !.pc = IF prod.op = "level" THEN "lv_read" ELSE "sa_cache",
                                 !.active = TRUE]
    /\ UNCHANGED <<bridge, ringVars, cons, written, popped, adapterVars>>

\* RingAccessGuard constructor bail-out: users_.fetch_sub(1), then return 0
SendGuardBail ==
    /\ prod.pc = "g_bail"
    /\ epoch' = [epoch EXCEPT !.m_ringUsers = epoch.m_ringUsers - 1]
    /\ prod' = [prod EXCEPT !.pc = "sa_ret", !.ret = 0]
    /\ UNCHANGED <<bridge, ringVars, cons, written, popped, life, work, gate, fmt, ccache, pcache,
                   sdk, wake, ctl, out, hist>>

\* sendAudio: generation check with reload, dispatch, totalBytes
SendCache ==
    /\ prod.pc = "sa_cache"
    /\ LET gen == fmt.m_formatGeneration
           p == IF gen # pcache.m_cachedFormatGen THEN ReloadProducer(gen) ELSE pcache
       IN  /\ pcache' = p
           /\ prod' = [prod EXCEPT !.pc = "sa_" \o PushVariant(p),
                                   !.n = TotalBytes(p, prod.n)]
    /\ UNCHANGED <<bridge, ringVars, cons, written, popped, life, work, gate, epoch, fmt, ccache,
                   sdk, wake, ctl, out, hist>>

\* sendAudio, PCM direct copy: m_ringBuffer.push(data, totalBytes)
SendPush == PushEnter("sa_direct", prod.n)

\* sendAudio after the push: the prefill test on m_prefillComplete and getAvailable()
SendPrefillTest ==
    /\ prod.pc = "push_ret"
    /\ LET back == [prod EXCEPT !.fn = "none", !.free = 0, !.rp = 0]
       IN  prod' = IF prod.ret > 0 /\ ~gate.m_prefillComplete
                      /\ getAvailable >= fmt.m_prefillTarget
                   THEN [back EXCEPT !.pc = "sa_set"]
                   ELSE [back EXCEPT !.pc = "sa_exit"]
    /\ UNCHANGED <<bridge, ringVars, cons, written, popped, adapterVars>>

\* sendAudio: m_prefillComplete = true
SendPrefillSet ==
    /\ prod.pc = "sa_set"
    /\ gate' = [gate EXCEPT !.m_prefillComplete = TRUE]
    /\ prod' = [prod EXCEPT !.pc = "sa_exit"]
    /\ UNCHANGED <<bridge, ringVars, cons, written, popped, life, work, epoch, fmt, ccache, pcache,
                   sdk, wake, ctl, out, hist>>

\* getBufferLevel with an active guard: size() and getAvailable()
LevelRead ==
    /\ prod.pc = "lv_read"
    /\ prod' = [prod EXCEPT !.pc = "sa_exit", !.ret = getAvailable]
    /\ UNCHANGED <<bridge, ringVars, cons, written, popped, adapterVars>>

\* ~RingAccessGuard of an active guard: users_.fetch_sub(1), then return
SendExit ==
    /\ prod.pc = "sa_exit"
    /\ epoch' = [epoch EXCEPT !.m_ringUsers = epoch.m_ringUsers - 1]
    /\ prod' = [prod EXCEPT !.pc = "sa_ret", !.active = FALSE]
    /\ UNCHANGED <<bridge, ringVars, cons, written, popped, life, work, gate, fmt, ccache, pcache,
                   sdk, wake, ctl, out, hist>>

\* the caller takes the value sendAudio / getBufferLevel returned
SendReturn ==
    /\ prod.pc = "sa_ret"
    /\ prod' = ProdIdle
    /\ UNCHANGED <<bridge, ringVars, cons, written, popped, adapterVars>>

(***************************************************************************)
(* Control threads: helpers shared by the lifecycle calls                  *)
(***************************************************************************)
Goto(t, pc) == ctl' = [ctl EXCEPT ![t].pc = pc]
\* the call returns value r to its caller
Return(t, r) == ctl' = [ctl EXCEPT ![t].pc = "op_ret", ![t].ret = r]
\* a call of a member function that returns to the label after
CallSub(t, pc, after) == ctl' = [ctl EXCEPT ![t].pc = pc, ![t].after = after]

\* the SDK session after stop() and disconnect()
SdkStopped == [sdk EXCEPT !.play = FALSE, !.conn = FALSE, !.online = FALSE]
\* the SDK session after DIRETTA::Sync::close()
SdkClosed == [sdk EXCEPT !.open = FALSE, !.play = FALSE, !.conn = FALSE, !.online = FALSE]

\* startSyncWorker() can take m_workerMutex and need not wait in join()
CanStartWorker ==
    /\ work.m_workerMutex = "free"
    /\ ~(work.thread = "running" /\ ~work.m_running)
\* startSyncWorker(): m_workerThread and m_running afterwards
StartedWork ==
    IF work.m_running /\ work.thread # "none"
    THEN work
    ELSE [work EXCEPT !.m_running = TRUE, !.thread = "running"]
\* startSyncWorker(): m_stopRequested afterwards
StartedGate ==
    IF work.m_running /\ work.thread # "none"
    THEN gate
    ELSE [gate EXCEPT !.m_stopRequested = FALSE]

\* an SDK call during which the SDK may call startSyncWorker()
SdkMayStart(start) ==
    IF start
    THEN CanStartWorker /\ work' = StartedWork /\ gate' = StartedGate
    ELSE work' = work /\ gate' = gate

\* requestShutdownSilence(buffers): the scaled count
ScaledSilence(buffers) ==
    IF fmt.m_isDsdMode
    THEN buffers * Max(1, fmt.m_sampleRate \div 2822400)
    ELSE buffers
\* the count the model keeps: requests are capped at SilenceCap buffers
\* requestShutdownSilence(buffers): m_silenceBuffersRemaining and m_draining
ShutdownSilence(buffers) ==
    [gate EXCEPT !.m_silenceBuffersRemaining = Min(ScaledSilence(buffers), SilenceCap),
                 !.m_draining = TRUE]

\* the caller takes the value the lifecycle call returned
OpReturn(t) ==
    /\ ctl[t].pc = "op_ret"
    /\ ctl' = [ctl EXCEPT ![t] = CtlIdle]
    /\ UNCHANGED <<bridge, ringVars, dataVars, life, work, gate, epoch, fmt, ccache, pcache, sdk,
                   wake, out, hist>>

\* DirettaRingBuffer::clear(): writePos_.store(0)
ClearWrite(t) ==
    /\ ctl[t].pc = "clear_w"
    /\ writePos_' = 0
    /\ MarkClear
    /\ Goto(t, "clear_r")
    /\ UNCHANGED <<bridge, size_, buffer_, readPos_, silenceByte_, pack, dataVars, life, work, gate,
                   epoch, fmt, ccache, pcache, sdk, wake, out>>

\* DirettaRingBuffer::clear(): readPos_.store(0) and the reset of the S24 state, then
\* back in the caller
ClearRead(t) ==
    /\ ctl[t].pc = "clear_r"
    /\ readPos_' = 0
    /\ pack' = PackInit
    /\ Goto(t, ctl[t].after)
    /\ UNCHANGED <<bridge, size_, buffer_, writePos_, silenceByte_, dataVars, life, work, gate,
                   epoch, fmt, ccache, pcache, sdk, wake, out, hist>>

\* the loops that wait, with a timeout, for m_silenceBuffersRemaining to reach 0
SilenceWaitNext(pc) ==
    CASE pc = "fp_wait" -> "clear_w"
      [] pc = "cl_wait" -> "cl_stop"
      [] pc = "pa_wait" -> "pa_stop"
      [] pc = "sp_wait" -> "sp_stop"
\* one of those loops ends, by the count or by its timeout
SilenceWait(t) ==
    /\ ctl[t].pc \in {"fp_wait", "cl_wait", "pa_wait", "sp_wait"}
    /\ Goto(t, SilenceWaitNext(ctl[t].pc))
    /\ UNCHANGED <<bridge, ringVars, dataVars, life, work, gate, epoch, fmt, ccache, pcache, sdk,
                   wake, out, hist>>

\* the loops that wait, with a count limit, for m_workerActive to be false
ActiveWaitNext(pc) ==
    CASE pc = "fr_wait" -> "fr_lock"
      [] pc = "cl_active" -> "cl_flags"
      [] pc = "sw_wait" -> "sw_lock"
\* one of those loops ends, by the flag or by its count
ActiveWait(t) ==
    /\ ctl[t].pc \in {"fr_wait", "cl_active", "sw_wait"}
    /\ Goto(t, ActiveWaitNext(ctl[t].pc))
    /\ UNCHANGED <<bridge, ringVars, dataVars, life, work, gate, epoch, fmt, ccache, pcache, sdk,
                   wake, out, hist>>

\* the places that lock m_workerMutex before joining the worker
JoinLockNext(pc) ==
    CASE pc = "td_lock" -> "td_join"
      [] pc = "rel_lock" -> "rel_join"
      [] pc = "sw_lock" -> "sw_join"
\* std::lock_guard<std::mutex> lock(m_workerMutex)
JoinLock(t) ==
    /\ ctl[t].pc \in {"td_lock", "rel_lock", "sw_lock"}
    /\ work.m_workerMutex = "free"
    /\ work' = [work EXCEPT !.m_workerMutex = t]
    /\ Goto(t, JoinLockNext(ctl[t].pc))
    /\ UNCHANGED <<bridge, ringVars, dataVars, life, gate, epoch, fmt, ccache, pcache, sdk, wake,
                   out, hist>>

JoinNext(pc) ==
    CASE pc = "td_join" -> "td_close"
      [] pc = "rel_join" -> "rel_close"
      [] pc = "sw_join" -> "dis_close"
\* if (m_workerThread.joinable()) m_workerThread.join(); the lock is released
JoinWorker(t) ==
    /\ ctl[t].pc \in {"td_join", "rel_join", "sw_join"}
    /\ work.thread # "running"
    /\ work' = [work EXCEPT !.thread = "none", !.m_workerMutex = "free"]
    /\ Goto(t, JoinNext(ctl[t].pc))
    /\ UNCHANGED <<bridge, ringVars, dataVars, life, gate, epoch, fmt, ccache, pcache, sdk, wake,
                   out, hist>>

(***************************************************************************)
(* Reconfigure epoch, DirettaSync::fullReset and configureRing*            *)
(***************************************************************************)
MIN_BUFFER_BYTES == 65536
MAX_BUFFER_BYTES == 16777216
PREFILL_MS_UNCOMPRESSED == 100
PREFILL_MS_DSD == 150

\* DirettaBuffer::calculateBufferSize with seconds given in tenths
calculateBufferSize(bytesPerSecond, tenths) ==
    Min(Max((bytesPerSecond * tenths) \div 10, MIN_BUFFER_BYTES), MAX_BUFFER_BYTES)

\* the ring size configureRing* asks resize() for, scaled to the model's ring
RingSizeFor(bytesPerSecond, tenths) ==
    Min(calculateBufferSize(bytesPerSecond, tenths), RingCap)

\* calculateAlignedPrefill: the whole-buffer prefill count
calculateAlignedPrefill(bytesPerSecond, bytesPerBuffer, isDSD, ringSize) ==
    LET targetMs == IF isDSD THEN PREFILL_MS_DSD ELSE PREFILL_MS_UNCOMPRESSED
        targetBytes == (bytesPerSecond * targetMs) \div 1000
        targetBuffers == (targetBytes + bytesPerBuffer - 1) \div bytesPerBuffer
        maxBuffers == IF ringSize > 0 /\ bytesPerBuffer > 0
                      THEN ringSize \div (4 * bytesPerBuffer) ELSE 100
    IN  Min(Max(targetBuffers, 8), maxBuffers)

\* the sum of the first n callback sizes of the remainder pattern
RECURSIVE PatternSum(_, _, _, _, _)
PatternSum(n, acc, framesRemainder, bytesPerBuffer, bytesPerFrame) ==
    IF n = 0 THEN 0
    ELSE LET a == acc + framesRemainder
         IN  IF a >= AccumulatorModulus
             THEN bytesPerBuffer + bytesPerFrame
                  + PatternSum(n - 1, a - AccumulatorModulus, framesRemainder,
                               bytesPerBuffer, bytesPerFrame)
             ELSE bytesPerBuffer
                  + PatternSum(n - 1, a, framesRemainder, bytesPerBuffer, bytesPerFrame)

\* frames per cycle that the rate leaves over: rate % 1000
FramesRemainder(rate) == rate % AccumulatorModulus

\* configureSinkPCM: the width the sink accepts, probing 32, 24, 16; 0 when none
AcceptedBits ==
    IF 32 \in sdk.sinkBits THEN 32
    ELSE IF 24 \in sdk.sinkBits THEN 24
    ELSE IF 16 \in sdk.sinkBits THEN 16
    ELSE 0
\* open(): direttaBps and inputBps from the accepted width and the input depth
DirettaBps(acceptedBits) == IF acceptedBits = 32 THEN 4 ELSE IF acceptedBits = 24 THEN 3 ELSE 2
InputBps(format) == IF format.bitDepth = 32 \/ format.bitDepth = 24 THEN 4 ELSE 2

\* beginReconfigure(): m_reconfiguring.store(true, release) is issued; with the
\* release order the store may become visible after the loads that follow it
BeginStore(t, from, to) ==
    /\ ctl[t].pc = from
    /\ epoch.m_configMutex = "free"
    /\ epoch' = [epoch EXCEPT !.m_configMutex = t, !.pending = TRUE]
    /\ Goto(t, to)
    /\ UNCHANGED <<bridge, ringVars, dataVars, life, work, gate, fmt, ccache, pcache, sdk, wake,
                   out, hist>>

\* the issued store of m_reconfiguring becomes visible to the other threads
StoreVisible ==
    /\ epoch.pending
    /\ epoch' = [epoch EXCEPT !.pending = FALSE, !.m_reconfiguring = TRUE]
    /\ UNCHANGED <<bridge, ringVars, dataVars, life, work, gate, fmt, ccache, pcache, sdk, wake,
                   ctl, out, hist>>

\* whether the spin loop of beginReconfigure() ends
SpinDone == epoch.m_ringUsers = 0

\* beginReconfigure(): while (m_ringUsers.load(acquire) > 0) yield
BeginSpin(t, from, to) ==
    /\ ctl[t].pc = from
    /\ SpinDone
    /\ Goto(t, to)
    /\ UNCHANGED <<bridge, ringVars, dataVars, life, work, gate, epoch, fmt, ccache, pcache, sdk,
                   wake, out, hist>>

\* endReconfigure() and the release of m_configMutex
EndEpoch(t, from, to) ==
    /\ ctl[t].pc = from
    /\ ~epoch.pending
    /\ epoch' = [epoch EXCEPT !.m_reconfiguring = FALSE, !.m_configMutex = "free"]
    /\ Goto(t, to)
    /\ UNCHANGED <<bridge, ringVars, dataVars, life, work, gate, fmt, ccache, pcache, sdk, wake,
                   out, hist>>

\* fullReset(): m_stopRequested = true; m_draining = false
FullResetStop(t) ==
    /\ ctl[t].pc = "fr_stop"
    /\ gate' = [gate EXCEPT !.m_stopRequested = TRUE, !.m_draining = FALSE]
    /\ Goto(t, "fr_wait")
    /\ UNCHANGED <<bridge, ringVars, dataVars, life, work, epoch, fmt, ccache, pcache, sdk, wake,
                   out, hist>>

FullResetBegin(t) == BeginStore(t, "fr_lock", "fr_spin")
FullResetSpin(t) == BeginSpin(t, "fr_spin", "fr_body")

\* fullReset(): the stores made under the ReconfigureGuard and m_ringBuffer.clear()
FullResetBody(t) ==
    /\ ctl[t].pc = "fr_body"
    /\ ~epoch.pending
    /\ gate' = [gate EXCEPT !.m_prefillComplete = FALSE, !.m_postOnlineDelayDone = FALSE,
                            !.m_silenceBuffersRemaining = 0, !.m_stabilizationCount = 0]
    /\ fmt' = [fmt EXCEPT !.m_isDsdMode = FALSE, !.m_need24BitPack = FALSE,
                          !.m_need16To32Upsample = FALSE, !.m_need16To24Upsample = FALSE,
                          !.m_bytesPerFrame = 0, !.m_framesPerBufferRemainder = 0,
                          !.m_framesPerBufferAccumulator = 0]
    /\ writePos_' = 0
    /\ readPos_' = 0
    /\ pack' = PackInit
    /\ MarkClear
    /\ Goto(t, "fr_end")
    /\ UNCHANGED <<bridge, size_, buffer_, silenceByte_, dataVars, life, work, epoch, ccache,
                   pcache, sdk, wake, out>>

FullResetEnd(t) == EndEpoch(t, "fr_end", "fr_resume")

\* fullReset(): m_stopRequested = false
FullResetResume(t) ==
    /\ ctl[t].pc = "fr_resume"
    /\ gate' = [gate EXCEPT !.m_stopRequested = FALSE]
    /\ Goto(t, "cfg_mode")
    /\ UNCHANGED <<bridge, ringVars, dataVars, life, work, epoch, fmt, ccache, pcache, sdk, wake,
                   out, hist>>

\* open(): m_isDsdMode.store(newIsDsd)
ConfigMode(t) ==
    /\ ctl[t].pc = "cfg_mode"
    /\ fmt' = [fmt EXCEPT !.m_isDsdMode = ctl[t].format.isDSD]
    /\ Goto(t, "cfg_sink")
    /\ UNCHANGED <<bridge, ringVars, dataVars, life, work, gate, epoch, ccache, pcache, sdk, wake,
                   out, hist>>

\* configureSinkPCM / configureSinkDSD: the sink takes a format, or the call throws
ConfigSink(t) ==
    /\ ctl[t].pc = "cfg_sink"
    /\ IF fmt.m_isDsdMode
       THEN \E supported \in BOOLEAN :
                IF supported
                THEN ctl' = [ctl EXCEPT ![t].pc = "cr_lock", ![t].bits = 1]
                ELSE Return(t, "throw")
       ELSE IF AcceptedBits = 0
            THEN Return(t, "throw")
            ELSE ctl' = [ctl EXCEPT ![t].pc = "cr_lock", ![t].bits = AcceptedBits]
    /\ UNCHANGED <<bridge, ringVars, dataVars, life, work, gate, epoch, fmt, ccache, pcache, sdk,
                   wake, out, hist>>

ConfigRingBegin(t) == BeginStore(t, "cr_lock", "cr_spin")
ConfigRingSpin(t) == BeginSpin(t, "cr_spin", "cr_flags")

\* configureRingPCM / configureRingDSD: the stores up to and including the two
\* generation increments
ConfigRingFlags(t) ==
    /\ ctl[t].pc = "cr_flags"
    /\ ~epoch.pending
    /\ LET f == ctl[t].format
           direttaBps == DirettaBps(ctl[t].bits)
           inputBps == InputBps(f)
       IN  fmt' = IF fmt.m_isDsdMode
                  THEN [fmt EXCEPT !.m_isDsdMode = TRUE, !.m_need24BitPack = FALSE,
                                   !.m_need16To32Upsample = FALSE,
                                   !.m_need16To24Upsample = FALSE,
                                   !.m_channels = f.channels,
                                   !.m_formatGeneration = fmt.m_formatGeneration + 1,
                                   !.m_consumerStateGen = fmt.m_consumerStateGen + 1]
                  ELSE [fmt EXCEPT !.m_sampleRate = f.sampleRate,
                                   !.m_channels = f.channels,
                                   !.m_bytesPerSample = direttaBps,
                                   !.m_inputBytesPerSample = inputBps,
                                   !.m_need24BitPack = (direttaBps = 3 /\ inputBps = 4),
                                   !.m_need16To32Upsample = (direttaBps = 4 /\ inputBps = 2),
                                   !.m_need16To24Upsample = (direttaBps = 3 /\ inputBps = 2),
                                   !.m_isDsdMode = FALSE,
                                   !.m_formatGeneration = fmt.m_formatGeneration + 1,
                                   !.m_consumerStateGen = fmt.m_consumerStateGen + 1]
    /\ Goto(t, "cr_resize")
    /\ UNCHANGED <<bridge, ringVars, dataVars, life, work, gate, epoch, ccache, pcache, sdk, wake,
                   out, hist>>

\* configureRingPCM after the generation increments: the values it stores
RingPCM(rate, channels, direttaBps) ==
    LET bytesPerSecond == rate * channels * direttaBps
        ringSize == roundUpPow2(RingSizeFor(bytesPerSecond, 5))
        bytesPerFrame == channels * direttaBps
        framesBase == rate \div 1000
        framesRemainder == FramesRemainder(rate)
        bytesPerBuffer == framesBase * bytesPerFrame
        buffers == calculateAlignedPrefill(bytesPerSecond, bytesPerBuffer, FALSE, ringSize)
    IN  [request |-> RingSizeFor(bytesPerSecond, 5), silence |-> PcmSilence,
         bytesPerFrame |-> bytesPerFrame, framesRemainder |-> framesRemainder,
         bytesPerBuffer |-> bytesPerBuffer, buffers |-> buffers,
         prefillTarget |-> IF framesRemainder = 0 THEN buffers * bytesPerBuffer
                           ELSE PatternSum(buffers, 0, framesRemainder, bytesPerBuffer,
                                           bytesPerFrame)]

\* configureRingDSD after the generation increments: the values it stores
RingDSD(byteRate, channels) ==
    LET bytesPerSecond == byteRate * channels
        ringSize == roundUpPow2(RingSizeFor(bytesPerSecond, 8))
        inputBytesPerMs == (byteRate \div 1000) * channels
        rounded == ((inputBytesPerMs + (4 * channels - 1)) \div (4 * channels))
                   * (4 * channels)
        bytesPerBuffer == IF rounded < 64 THEN 64 ELSE rounded
        buffers == calculateAlignedPrefill(bytesPerSecond, bytesPerBuffer, TRUE, ringSize)
    IN  [request |-> RingSizeFor(bytesPerSecond, 8), silence |-> DsdSilence,
         bytesPerFrame |-> 0, framesRemainder |-> 0,
         bytesPerBuffer |-> bytesPerBuffer, buffers |-> buffers,
         prefillTarget |-> buffers * bytesPerBuffer]

\* configureRingPCM / configureRingDSD: resize() and the stores that follow it
ConfigRingResize(t) ==
    /\ ctl[t].pc = "cr_resize"
    /\ LET f == ctl[t].format
           r == IF fmt.m_isDsdMode
                THEN RingDSD(f.sampleRate \div 8, f.channels)
                ELSE RingPCM(f.sampleRate, f.channels, DirettaBps(ctl[t].bits))
       IN  /\ size_' = roundUpPow2(r.request)
           /\ buffer_' = ResizedBuffer(r.request, r.silence)
           /\ silenceByte_' = r.silence
           /\ pack' = PackInit
           /\ writePos_' = 0
           /\ readPos_' = 0
           /\ fmt' = [fmt EXCEPT !.m_bytesPerFrame = r.bytesPerFrame,
                                 !.m_framesPerBufferRemainder = r.framesRemainder,
                                 !.m_framesPerBufferAccumulator = 0,
                                 !.m_bytesPerBuffer = r.bytesPerBuffer,
                                 !.m_prefillTargetBuffers = r.buffers,
                                 !.m_prefillTarget = r.prefillTarget]
    /\ gate' = [gate EXCEPT !.m_prefillComplete = FALSE]
    /\ MarkClear
    /\ Goto(t, "cr_end")
    /\ UNCHANGED <<bridge, dataVars, life, work, epoch, ccache, pcache, sdk, wake, out>>

ConfigRingEnd(t) == EndEpoch(t, "cr_end", "os_delay")

(***************************************************************************)
(* DirettaSync::enable, openSyncConnection and open                        *)
(***************************************************************************)
\* enable(): already enabled, or discoverTarget() and measureMTU()
EnableCall(t) ==
    /\ \A u \in Threads : ctl[u].pc = "idle"
    /\ hist.calls > 0
    /\ \E found \in BOOLEAN :
        IF life.m_enabled THEN Return(t, "true")
        ELSE IF ~found THEN Return(t, "false")
        ELSE ctl' = [ctl EXCEPT ![t].pc = "osc", ![t].after = "en_done", ![t].n = 0]
    /\ hist' = [hist EXCEPT !.calls = hist.calls - 1]
    /\ UNCHANGED <<bridge, ringVars, dataVars, life, work, gate, epoch, fmt, ccache, pcache, sdk,
                   wake, out>>

\* openSyncConnection(): one attempt of DIRETTA::Sync::open in the retry loop
OpenSyncConnection(t) ==
    /\ ctl[t].pc = "osc"
    /\ \E opened \in BOOLEAN, start \in BOOLEAN :
        IF opened
        THEN /\ SdkMayStart(start)
             /\ sdk' = [sdk EXCEPT !.open = TRUE]
             /\ life' = [life EXCEPT !.m_sdkOpen = TRUE]
             /\ Goto(t, ctl[t].after)
        ELSE /\ ~start
             /\ IF ctl[t].n + 1 < OPEN_RETRIES
                THEN ctl' = [ctl EXCEPT ![t].n = ctl[t].n + 1]
                ELSE Return(t, "false")
             /\ UNCHANGED <<bridge, sdk, life, work, gate>>
    /\ UNCHANGED <<bridge, ringVars, dataVars, epoch, fmt, ccache, pcache, wake, out, hist>>

\* enable(): m_enabled = true
EnableDone(t) ==
    /\ ctl[t].pc = "en_done"
    /\ life' = [life EXCEPT !.m_enabled = TRUE]
    /\ Return(t, "true")
    /\ UNCHANGED <<bridge, ringVars, dataVars, work, gate, epoch, fmt, ccache, pcache, sdk, wake,
                   out, hist>>

\* open(format): the m_enabled and m_sdkOpen tests
OpenCall(t, format) ==
    /\ \A u \in Threads : ctl[u].pc = "idle"
    /\ hist.calls > 0
    /\ hist' = [hist EXCEPT !.calls = hist.calls - 1]
    /\ IF ~life.m_enabled
       THEN ctl' = [ctl EXCEPT ![t].pc = "op_ret", ![t].ret = "false", ![t].format = format]
       ELSE IF ~life.m_sdkOpen
       THEN ctl' = [ctl EXCEPT ![t].pc = "osc", ![t].after = "open_cmp", ![t].n = 0,
                               ![t].format = format]
       ELSE ctl' = [ctl EXCEPT ![t].pc = "open_cmp", ![t].format = format]
    /\ UNCHANGED <<bridge, ringVars, dataVars, life, work, gate, epoch, fmt, ccache, pcache, sdk,
                   wake, out>>

\* open(): sameFormat
SameFormat(a, b) ==
    /\ a.sampleRate = b.sampleRate
    /\ a.bitDepth = b.bitDepth
    /\ a.channels = b.channels
    /\ a.isDSD = b.isDSD

\* open(): getClockFamily
getClockFamily(sampleRate) ==
    IF sampleRate % 44100 = 0 THEN 441 ELSE IF sampleRate % 48000 = 0 THEN 480 ELSE 0

\* open(): which format-change path is taken from the previous format to the new one:
\* "inline" closes and reopens the SDK in open() itself, "reopen" calls
\* reopenForFormatChange()
ChangePath(prev, format) ==
    LET wasDSD == prev.isDSD
        nowDSD == format.isDSD
        rateChange == prev.sampleRate # format.sampleRate
        sameFamily == getClockFamily(prev.sampleRate) # 0
                      /\ getClockFamily(prev.sampleRate) = getClockFamily(format.sampleRate)
        needsFullReset == sameFamily /\ (prev.sampleRate >= 176400
                                         \/ format.sampleRate >= 11289600)
    IN  IF wasDSD /\ (~nowDSD \/ rateChange) THEN "inline"
        ELSE IF ~wasDSD /\ ~nowDSD /\ rateChange THEN "inline"
        ELSE IF needsFullReset THEN "inline"
        ELSE "reopen"

\* open(): the comparison with the previous format and the choice of the path
OpenCompare(t) ==
    /\ ctl[t].pc = "open_cmp"
    /\ IF life.m_open /\ life.m_hasPreviousFormat
       THEN IF SameFormat(life.m_previousFormat, ctl[t].format)
            THEN ctl' = [ctl EXCEPT ![t].kind = "quick",
                                    ![t].pc = IF fmt.m_isDsdMode THEN "fp_silence"
                                              ELSE "clear_w",
                                    ![t].after = "fp_prefill"]
            ELSE ctl' = [ctl EXCEPT ![t].kind = ChangePath(life.m_previousFormat,
                                                           ctl[t].format),
                                    ![t].pc = "td_stop"]
       ELSE ctl' = [ctl EXCEPT ![t].kind = "first", ![t].pc = "fr_stop"]
    /\ UNCHANGED <<bridge, ringVars, dataVars, life, work, gate, epoch, fmt, ccache, pcache, sdk,
                   wake, out, hist>>

\* open(), quick resume in DSD mode: requestShutdownSilence(30)
QuickSilence(t) ==
    /\ ctl[t].pc = "fp_silence"
    /\ gate' = ShutdownSilence(30)
    /\ Goto(t, "fp_wait")
    /\ UNCHANGED <<bridge, ringVars, dataVars, life, work, epoch, fmt, ccache, pcache, sdk, wake,
                   out, hist>>

\* open(), quick resume after m_ringBuffer.clear(): m_prefillComplete = false
QuickPrefill(t) ==
    /\ ctl[t].pc = "fp_prefill"
    /\ gate' = [gate EXCEPT !.m_prefillComplete = FALSE]
    /\ Goto(t, "fp_rest")
    /\ UNCHANGED <<bridge, ringVars, dataVars, life, work, epoch, fmt, ccache, pcache, sdk, wake,
                   out, hist>>

\* a quick resume that also re-arms the post-online stabilisation
QuickPlay_Rearm(t) ==
    /\ ctl[t].pc = "fp_rest"
    /\ \E start \in BOOLEAN :
        /\ IF start THEN CanStartWorker ELSE TRUE
        /\ work' = IF start THEN StartedWork ELSE work
        /\ gate' = [gate EXCEPT !.m_stabilizationCount = 0, !.m_stopRequested = FALSE,
                                !.m_draining = FALSE, !.m_silenceBuffersRemaining = 0,
                                !.m_postOnlineDelayDone = FALSE]
    /\ sdk' = [sdk EXCEPT !.play = TRUE]
    /\ life' = [life EXCEPT !.m_playing = TRUE, !.m_paused = FALSE]
    /\ Return(t, "true")
    /\ UNCHANGED <<bridge, ringVars, dataVars, epoch, fmt, ccache, pcache, wake, out, hist>>

\* open(), quick resume: the remaining flag stores, play(), return true
QuickPlay(t) ==
    /\ ctl[t].pc = "fp_rest"
    /\ \E start \in BOOLEAN :
        /\ IF start THEN CanStartWorker ELSE TRUE
        /\ work' = IF start THEN StartedWork ELSE work
        /\ gate' = [gate EXCEPT !.m_stabilizationCount = 0, !.m_stopRequested = FALSE,
                                !.m_draining = FALSE, !.m_silenceBuffersRemaining = 0]
    /\ sdk' = [sdk EXCEPT !.play = TRUE]
    /\ life' = [life EXCEPT !.m_playing = TRUE, !.m_paused = FALSE]
    /\ Return(t, "true")
    /\ UNCHANGED <<bridge, ringVars, dataVars, epoch, fmt, ccache, pcache, wake, out, hist>>

\* open() format change and reopenForFormatChange(): stop() and disconnect(true)
TeardownStop(t) ==
    /\ ctl[t].pc = "td_stop"
    /\ gate' = IF ctl[t].kind = "inline"
               THEN [gate EXCEPT !.m_silenceBuffersRemaining = 0]
               ELSE gate
    /\ sdk' = SdkStopped
    /\ Goto(t, "td_running")
    /\ UNCHANGED <<bridge, ringVars, dataVars, life, work, epoch, fmt, ccache, pcache, wake, out,
                   hist>>

\* open() format change and reopenForFormatChange(): m_running = false
TeardownRunning(t) ==
    /\ ctl[t].pc = "td_running"
    /\ work' = [work EXCEPT !.m_running = FALSE]
    /\ Goto(t, "td_lock")
    /\ UNCHANGED <<bridge, ringVars, dataVars, life, gate, epoch, fmt, ccache, pcache, sdk, wake,
                   out, hist>>

\* open() format change and reopenForFormatChange(): DIRETTA::Sync::close(); the
\* inline paths also clear m_open, m_playing, m_paused
TeardownClose(t) ==
    /\ ctl[t].pc = "td_close"
    /\ sdk' = SdkClosed
    /\ life' = IF ctl[t].kind = "inline"
               THEN [life EXCEPT !.m_open = FALSE, !.m_playing = FALSE, !.m_paused = FALSE]
               ELSE life
    /\ CallSub(t, "iw_lock", "td_reopen")
    /\ UNCHANGED <<bridge, ringVars, dataVars, work, gate, epoch, fmt, ccache, pcache, wake, out,
                   hist>>

\* open() format change and reopenForFormatChange(): DIRETTA::Sync::open after the wait
TeardownReopen(t) ==
    /\ ctl[t].pc = "td_reopen"
    /\ \E opened \in BOOLEAN, start \in BOOLEAN :
        IF opened
        THEN /\ SdkMayStart(start)
             /\ sdk' = [sdk EXCEPT !.open = TRUE]
             /\ Goto(t, "fr_stop")
        ELSE /\ ~start
             /\ Return(t, "false")
             /\ UNCHANGED <<bridge, sdk, work, gate>>
    /\ UNCHANGED <<bridge, ringVars, dataVars, life, epoch, fmt, ccache, pcache, wake, out, hist>>

(***************************************************************************)
(* interruptibleWait, the connect sequence of open(), close, release,      *)
(* disable, pausePlayback, resumePlayback                                  *)
(***************************************************************************)
\* the labels of a control thread inside interruptibleWait
WaitPcs == {"iw_lock", "iw_test", "iw_blocked", "iw_relock"}

\* interruptibleWait: std::unique_lock<std::mutex> lock(mutex), also after a wakeup
WaitLock(t) ==
    /\ ctl[t].pc \in {"iw_lock", "iw_relock"}
    /\ wake.m_transitionMutex = "free"
    /\ wake' = [wake EXCEPT !.m_transitionMutex = t]
    /\ Goto(t, "iw_test")
    /\ UNCHANGED <<bridge, ringVars, dataVars, life, work, gate, epoch, fmt, ccache, pcache, sdk,
                   out, hist>>

\* the predicate of cv.wait_for
WaitPredicate == wake.m_transitionWakeup

\* cv.wait_for under the lock: the predicate holds (the flag is reset and the wait
\* ends), or the timeout has passed (the wait ends), or the thread blocks
WaitTest(t) ==
    /\ ctl[t].pc = "iw_test"
    /\ IF WaitPredicate
       THEN /\ wake' = [wake EXCEPT !.m_transitionWakeup = FALSE,
                                    !.m_transitionMutex = "free", !.expired = FALSE]
            /\ ctl' = [ctl EXCEPT ![t].pc = ctl[t].after, ![t].ret = "interrupted"]
       ELSE IF wake.expired
       THEN /\ wake' = [wake EXCEPT !.m_transitionMutex = "free", !.expired = FALSE]
            /\ ctl' = [ctl EXCEPT ![t].pc = ctl[t].after, ![t].ret = "timeout"]
       ELSE /\ wake' = [wake EXCEPT !.m_transitionMutex = "free"]
            /\ Goto(t, "iw_blocked")
    /\ UNCHANGED <<bridge, ringVars, dataVars, life, work, gate, epoch, fmt, ccache, pcache, sdk,
                   out, hist>>

\* the threads blocked in the condition variable are made runnable
Woken == [t \in Threads |-> IF ctl[t].pc = "iw_blocked"
                            THEN [ctl[t] EXCEPT !.pc = "iw_relock"] ELSE ctl[t]]

\* the timeout of the wait passes
TimerExpire ==
    /\ \E t \in Threads : ctl[t].pc \in WaitPcs
    /\ ~wake.expired
    /\ wake' = [wake EXCEPT !.expired = TRUE]
    /\ ctl' = Woken
    /\ UNCHANGED <<bridge, ringVars, dataVars, life, work, gate, epoch, fmt, ccache, pcache, sdk,
                   out, hist>>

\* a spurious wakeup of the condition variable
SpuriousWakeup ==
    /\ \E t \in Threads : ctl[t].pc = "iw_blocked"
    /\ ctl' = Woken
    /\ UNCHANGED <<bridge, ringVars, dataVars, life, work, gate, epoch, fmt, ccache, pcache, sdk,
                   wake, out, hist>>

\* the labels of a control thread inside a std::this_thread::sleep_for of open()
SleepPcs == {"os_delay"}

\* open(): std::this_thread::sleep_for(initialDelayMs) returns when its time has passed
OpenDelay(t) ==
    /\ ctl[t].pc = "os_delay"
    /\ Goto(t, "os_setsink")
    /\ UNCHANGED <<bridge, ringVars, dataVars, life, work, gate, epoch, fmt, ccache, pcache, sdk,
                   wake, out, hist>>

\* open(): the setSink retry loop, inquirySupportFormat, applyTransferMode
OpenSetSink(t) ==
    /\ ctl[t].pc = "os_setsink"
    /\ \E sinkSet \in BOOLEAN :
        IF sinkSet THEN Goto(t, "os_prepare") ELSE Return(t, "false")
    /\ UNCHANGED <<bridge, ringVars, dataVars, life, work, gate, epoch, fmt, ccache, pcache, sdk,
                   wake, out, hist>>

\* open(): connectPrepare()
OpenPrepare(t) ==
    /\ ctl[t].pc = "os_prepare"
    /\ \E ok \in BOOLEAN :
        IF ok THEN Goto(t, "os_connect") ELSE Return(t, "false")
    /\ UNCHANGED <<bridge, ringVars, dataVars, life, work, gate, epoch, fmt, ccache, pcache, sdk,
                   wake, out, hist>>

\* open(): the connect(0) retry loop
OpenConnect(t) ==
    /\ ctl[t].pc = "os_connect"
    /\ \E connected \in BOOLEAN, start \in BOOLEAN :
        /\ SdkMayStart(start)
        /\ IF connected THEN Goto(t, "os_connwait") ELSE Return(t, "false")
    /\ UNCHANGED <<bridge, ringVars, dataVars, life, epoch, fmt, ccache, pcache, sdk, wake, out,
                   hist>>

\* open(): connectWait(), with disconnect() when it fails; then m_ringBuffer.clear()
OpenConnectWait(t) ==
    /\ ctl[t].pc = "os_connwait"
    /\ \E ok \in BOOLEAN :
        IF ok
        THEN /\ sdk' = [sdk EXCEPT !.conn = TRUE]
             /\ CallSub(t, "clear_w", "os_prefill")
        ELSE /\ sdk' = SdkStopped
             /\ ctl' = [ctl EXCEPT ![t].pc = "op_ret", ![t].ret = "false",
                                   ![t].disconnected = TRUE]
    /\ UNCHANGED <<bridge, ringVars, dataVars, life, work, gate, epoch, fmt, ccache, pcache, wake,
                   out, hist>>

\* open(): m_prefillComplete = false; m_postOnlineDelayDone = false
OpenPrefill(t) ==
    /\ ctl[t].pc = "os_prefill"
    /\ gate' = [gate EXCEPT !.m_prefillComplete = FALSE, !.m_postOnlineDelayDone = FALSE]
    /\ Goto(t, "os_play")
    /\ UNCHANGED <<bridge, ringVars, dataVars, life, work, epoch, fmt, ccache, pcache, sdk, wake,
                   out, hist>>

\* open(): play()
OpenPlay(t) ==
    /\ ctl[t].pc = "os_play"
    /\ \E start \in BOOLEAN : SdkMayStart(start)
    /\ sdk' = [sdk EXCEPT !.play = TRUE]
    /\ Goto(t, "os_online")
    /\ UNCHANGED <<bridge, ringVars, dataVars, life, epoch, fmt, ccache, pcache, wake, out, hist>>

\* open(): waitForOnline(), which may time out with the session offline
OpenOnline(t) ==
    /\ ctl[t].pc = "os_online"
    /\ \E online \in BOOLEAN : sdk' = [sdk EXCEPT !.online = online]
    /\ Goto(t, "os_done")
    /\ UNCHANGED <<bridge, ringVars, dataVars, life, work, gate, epoch, fmt, ccache, pcache, wake,
                   out, hist>>

\* open(): the final stores and return true
OpenDone(t) ==
    /\ ctl[t].pc = "os_done"
    /\ gate' = [gate EXCEPT !.m_postOnlineDelayDone = FALSE, !.m_stabilizationCount = 0]
    /\ life' = [life EXCEPT !.m_previousFormat = ctl[t].format,
                            !.m_hasPreviousFormat = TRUE, !.m_open = TRUE,
                            !.m_playing = TRUE, !.m_paused = FALSE]
    /\ hist' = IF hist.track THEN [hist EXCEPT !.full = TRUE, !.stab = 0] ELSE hist
    /\ Return(t, "true")
    /\ UNCHANGED <<bridge, ringVars, dataVars, work, epoch, fmt, ccache, pcache, sdk, wake, out>>

(***************************************************************************)
(* close, release, disable, pausePlayback, resumePlayback                  *)
(***************************************************************************)
\* no other control thread is inside a call; disable() meets a call in progress
\* only in the timed waits of open()
MayCall(t) ==
    /\ hist.calls > 0
    /\ ctl[t].pc = "idle"
    /\ \A u \in Threads \ {t} : ctl[u].pc = "idle"
MayDisable(t) ==
    /\ hist.calls > 0
    /\ ctl[t].pc = "idle"
    /\ \A u \in Threads \ {t} : ctl[u].pc \in {"idle"} \cup WaitPcs \cup SleepPcs

\* close(): the m_open test and requestShutdownSilence(m_isDsdMode ? 50 : 20)
CloseBegin(t) ==
    /\ ctl[t].pc = "cl_begin"
    /\ IF ~life.m_open
       THEN /\ Goto(t, ctl[t].after)
            /\ gate' = gate
       ELSE /\ gate' = ShutdownSilence(IF fmt.m_isDsdMode THEN 50 ELSE 20)
            /\ Goto(t, "cl_wait")
    /\ UNCHANGED <<bridge, ringVars, dataVars, life, work, epoch, fmt, ccache, pcache, sdk, wake,
                   out, hist>>

CloseCall(t) ==
    /\ MayCall(t)
    /\ ctl' = [ctl EXCEPT ![t].pc = "cl_begin", ![t].after = "op_ret"]
    /\ hist' = [hist EXCEPT !.calls = hist.calls - 1]
    /\ UNCHANGED <<bridge, ringVars, dataVars, life, work, gate, epoch, fmt, ccache, pcache, sdk,
                   wake, out>>

\* close(): m_stopRequested = true; stop(); disconnect(true)
CloseStop(t) ==
    /\ ctl[t].pc = "cl_stop"
    /\ gate' = [gate EXCEPT !.m_stopRequested = TRUE]
    /\ sdk' = SdkStopped
    /\ Goto(t, "cl_active")
    /\ UNCHANGED <<bridge, ringVars, dataVars, life, work, epoch, fmt, ccache, pcache, wake, out,
                   hist>>

\* a close() that also marks the SDK session closed
CloseFlags_SdkClosed(t) ==
    /\ ctl[t].pc = "cl_flags"
    /\ life' = [life EXCEPT !.m_open = FALSE, !.m_playing = FALSE, !.m_paused = FALSE,
                            !.m_sdkOpen = FALSE]
    /\ Goto(t, ctl[t].after)
    /\ UNCHANGED <<bridge, ringVars, dataVars, work, gate, epoch, fmt, ccache, pcache, sdk, wake,
                   out, hist>>

\* close(): m_open = false; m_playing = false; m_paused = false
CloseFlags(t) ==
    /\ ctl[t].pc = "cl_flags"
    /\ life' = [life EXCEPT !.m_open = FALSE, !.m_playing = FALSE, !.m_paused = FALSE]
    /\ Goto(t, ctl[t].after)
    /\ UNCHANGED <<bridge, ringVars, dataVars, work, gate, epoch, fmt, ccache, pcache, sdk, wake,
                   out, hist>>

\* release(): if (m_open) close()
ReleaseCall(t) ==
    /\ MayCall(t)
    /\ ctl' = [ctl EXCEPT ![t].pc = IF life.m_open THEN "cl_begin" ELSE "rel_sdk",
                          ![t].after = "rel_sdk"]
    /\ hist' = [hist EXCEPT !.calls = hist.calls - 1]
    /\ UNCHANGED <<bridge, ringVars, dataVars, life, work, gate, epoch, fmt, ccache, pcache, sdk,
                   wake, out>>

\* release(): if (m_sdkOpen) m_running = false
ReleaseSdk(t) ==
    /\ ctl[t].pc = "rel_sdk"
    /\ IF life.m_sdkOpen
       THEN /\ work' = [work EXCEPT !.m_running = FALSE]
            /\ Goto(t, "rel_lock")
       ELSE /\ work' = work
            /\ Goto(t, "rel_done")
    /\ UNCHANGED <<bridge, ringVars, dataVars, life, gate, epoch, fmt, ccache, pcache, sdk, wake,
                   out, hist>>

\* release(): DIRETTA::Sync::close(); m_sdkOpen = false
ReleaseClose(t) ==
    /\ ctl[t].pc = "rel_close"
    /\ sdk' = SdkClosed
    /\ life' = [life EXCEPT !.m_sdkOpen = FALSE]
    /\ Goto(t, "rel_done")
    /\ UNCHANGED <<bridge, ringVars, dataVars, work, gate, epoch, fmt, ccache, pcache, wake, out,
                   hist>>

\* release(): m_hasPreviousFormat = false
ReleaseDone(t) ==
    /\ ctl[t].pc = "rel_done"
    /\ life' = [life EXCEPT !.m_hasPreviousFormat = FALSE]
    /\ Return(t, "void")
    /\ UNCHANGED <<bridge, ringVars, dataVars, work, gate, epoch, fmt, ccache, pcache, sdk, wake,
                   out, hist>>

\* a disable() that notifies without setting the flag
WakeValue_Unset == FALSE
\* the value disable() stores in m_transitionWakeup
WakeValue == TRUE

\* disable(): lock m_transitionMutex, m_transitionWakeup.store(true), unlock
DisableCall(t) ==
    /\ MayDisable(t)
    /\ wake.m_transitionMutex = "free"
    /\ wake' = [wake EXCEPT !.m_transitionWakeup = WakeValue]
    /\ ctl' = [ctl EXCEPT ![t].pc = "dis_notify", ![t].kind = "disable"]
    /\ hist' = [hist EXCEPT !.calls = hist.calls - 1]
    /\ UNCHANGED <<bridge, ringVars, dataVars, life, work, gate, epoch, fmt, ccache, pcache, sdk,
                   out>>

\* disable(): m_transitionCv.notify_all()
DisableNotify(t) ==
    /\ ctl[t].pc = "dis_notify"
    /\ ctl' = [Woken EXCEPT ![t].pc = "dis_open"]
    /\ UNCHANGED <<bridge, ringVars, dataVars, life, work, gate, epoch, fmt, ccache, pcache, sdk,
                   wake, out, hist>>

\* disable(): if (m_open) close()
DisableOpen(t) ==
    /\ ctl[t].pc = "dis_open"
    /\ ctl' = [ctl EXCEPT ![t].pc = IF life.m_open THEN "cl_begin" ELSE "dis_enabled",
                          ![t].after = "dis_enabled"]
    /\ UNCHANGED <<bridge, ringVars, dataVars, life, work, gate, epoch, fmt, ccache, pcache, sdk,
                   wake, out, hist>>

\* disable(): if (m_enabled) shutdownWorker(), up to m_running = false
DisableEnabled(t) ==
    /\ ctl[t].pc = "dis_enabled"
    /\ IF life.m_enabled
       THEN /\ gate' = [gate EXCEPT !.m_stopRequested = TRUE]
            /\ work' = [work EXCEPT !.m_running = FALSE]
            /\ Goto(t, "sw_wait")
       ELSE /\ UNCHANGED <<bridge, gate, work>>
            /\ Goto(t, "dis_done")
    /\ UNCHANGED <<bridge, ringVars, dataVars, life, epoch, fmt, ccache, pcache, sdk, wake, out,
                   hist>>

\* disable(): DIRETTA::Sync::close(); m_sdkOpen = false; m_enabled = false
DisableClose(t) ==
    /\ ctl[t].pc = "dis_close"
    /\ sdk' = SdkClosed
    /\ life' = [life EXCEPT !.m_sdkOpen = FALSE, !.m_enabled = FALSE]
    /\ Goto(t, "dis_done")
    /\ UNCHANGED <<bridge, ringVars, dataVars, work, gate, epoch, fmt, ccache, pcache, wake, out,
                   hist>>

\* disable(): m_hasPreviousFormat = false
DisableDone(t) ==
    /\ ctl[t].pc = "dis_done"
    /\ life' = [life EXCEPT !.m_hasPreviousFormat = FALSE]
    /\ Return(t, "void")
    /\ UNCHANGED <<bridge, ringVars, dataVars, work, gate, epoch, fmt, ccache, pcache, sdk, wake,
                   out, hist>>

\* pausePlayback(): requestShutdownSilence(m_isDsdMode ? 30 : 10)
PauseCall(t) ==
    /\ MayCall(t)
    /\ IF ~life.m_playing \/ life.m_paused
       THEN /\ Return(t, "void")
            /\ gate' = gate
       ELSE /\ gate' = ShutdownSilence(IF fmt.m_isDsdMode THEN 30 ELSE 10)
            /\ Goto(t, "pa_wait")
    /\ hist' = [hist EXCEPT !.calls = hist.calls - 1]
    /\ UNCHANGED <<bridge, ringVars, dataVars, life, work, epoch, fmt, ccache, pcache, sdk, wake,
                   out>>

\* pausePlayback(): stop(); m_paused = true
PauseStop(t) ==
    /\ ctl[t].pc = "pa_stop"
    /\ sdk' = [sdk EXCEPT !.play = FALSE]
    /\ life' = [life EXCEPT !.m_paused = TRUE]
    /\ Return(t, "void")
    /\ UNCHANGED <<bridge, ringVars, dataVars, work, gate, epoch, fmt, ccache, pcache, wake, out,
                   hist>>

\* resumePlayback(): the flag resets, then m_ringBuffer.clear()
ResumeCall(t) ==
    /\ MayCall(t)
    /\ IF ~life.m_paused
       THEN /\ Return(t, "void")
            /\ gate' = gate
       ELSE /\ gate' = [gate EXCEPT !.m_draining = FALSE, !.m_stopRequested = FALSE,
                                    !.m_silenceBuffersRemaining = 0]
            /\ CallSub(t, "clear_w", "re_prefill")
    /\ hist' = [hist EXCEPT !.calls = hist.calls - 1]
    /\ UNCHANGED <<bridge, ringVars, dataVars, life, work, epoch, fmt, ccache, pcache, sdk, wake,
                   out>>

\* resumePlayback() after the clear: m_prefillComplete = false
ResumePrefill(t) ==
    /\ ctl[t].pc = "re_prefill"
    /\ gate' = [gate EXCEPT !.m_prefillComplete = FALSE]
    /\ Goto(t, "re_play")
    /\ UNCHANGED <<bridge, ringVars, dataVars, life, work, epoch, fmt, ccache, pcache, sdk, wake,
                   out, hist>>

\* resumePlayback(): play(); m_paused = false; m_playing = true
ResumePlay(t) ==
    /\ ctl[t].pc = "re_play"
    /\ \E start \in BOOLEAN : SdkMayStart(start)
    /\ sdk' = [sdk EXCEPT !.play = TRUE]
    /\ life' = [life EXCEPT !.m_paused = FALSE, !.m_playing = TRUE]
    /\ Return(t, IF ctl[t].kind = "start" THEN "true" ELSE "void")
    /\ UNCHANGED <<bridge, ringVars, dataVars, epoch, fmt, ccache, pcache, wake, out, hist>>

\* stopPlayback(immediate): m_underrunCount.exchange(0), the m_playing test and
\* requestShutdownSilence(m_isDsdMode ? 50 : 20) unless immediate
StopCall(t) ==
    /\ MayCall(t)
    /\ \E immediate \in BOOLEAN :
        IF ~life.m_playing
        THEN /\ gate' = [gate EXCEPT !.m_underrunCount = 0]
             /\ Return(t, "void")
        ELSE IF immediate
        THEN /\ gate' = [gate EXCEPT !.m_underrunCount = 0]
             /\ ctl' = [ctl EXCEPT ![t].pc = "sp_stop", ![t].kind = "stop"]
        ELSE /\ gate' = [ShutdownSilence(IF fmt.m_isDsdMode THEN 50 ELSE 20)
                             EXCEPT !.m_underrunCount = 0]
             /\ ctl' = [ctl EXCEPT ![t].pc = "sp_wait", ![t].kind = "stop"]
    /\ hist' = [hist EXCEPT !.calls = hist.calls - 1]
    /\ UNCHANGED <<bridge, ringVars, dataVars, life, work, epoch, fmt, ccache, pcache, sdk, wake,
                   out>>

\* stopPlayback(): stop(); m_playing = false; m_paused = false
StopStop(t) ==
    /\ ctl[t].pc = "sp_stop"
    /\ sdk' = [sdk EXCEPT !.play = FALSE]
    /\ life' = [life EXCEPT !.m_playing = FALSE, !.m_paused = FALSE]
    /\ Return(t, "void")
    /\ UNCHANGED <<bridge, ringVars, dataVars, work, gate, epoch, fmt, ccache, pcache, wake, out,
                   hist>>

\* startPlayback(): the m_open and m_playing tests; when paused, resumePlayback()
StartCall(t) ==
    /\ MayCall(t)
    /\ IF ~life.m_open
       THEN /\ Return(t, "false")
            /\ gate' = gate
       ELSE IF life.m_playing /\ ~life.m_paused
       THEN /\ Return(t, "true")
            /\ gate' = gate
       ELSE IF life.m_paused
       THEN /\ gate' = [gate EXCEPT !.m_draining = FALSE, !.m_stopRequested = FALSE,
                                    !.m_silenceBuffersRemaining = 0]
            /\ ctl' = [ctl EXCEPT ![t].pc = "clear_w", ![t].after = "re_prefill",
                                  ![t].kind = "start"]
       ELSE /\ gate' = gate
            /\ ctl' = [ctl EXCEPT ![t].pc = "sta_play", ![t].kind = "start"]
    /\ hist' = [hist EXCEPT !.calls = hist.calls - 1]
    /\ UNCHANGED <<bridge, ringVars, dataVars, life, work, epoch, fmt, ccache, pcache, sdk, wake,
                   out>>

\* startPlayback(): play(); m_playing = true; m_paused = false; return true
StartPlay(t) ==
    /\ ctl[t].pc = "sta_play"
    /\ \E start \in BOOLEAN : SdkMayStart(start)
    /\ sdk' = [sdk EXCEPT !.play = TRUE]
    /\ life' = [life EXCEPT !.m_playing = TRUE, !.m_paused = FALSE]
    /\ Return(t, "true")
    /\ UNCHANGED <<bridge, ringVars, dataVars, epoch, fmt, ccache, pcache, wake, out, hist>>
(***************************************************************************)
(* SpecPlay: steady playback, a producer calling sendAudio / getBufferLevel *)
(* and the worker calling getNewStream, no lifecycle call in progress       *)
(***************************************************************************)
\* the adapter open and playing format f on a sink taking the PCM widths bits, with
\* the post-online stabilisation done, the worker running and the caches loaded:
\* with at = 0 as a pause and a resume leave it (ring cleared, prefill pending), with
\* at > 0 later in that playback (prefill complete, the ring drained by the worker,
\* both positions at offset at)
Playing(f, bits, at) ==
    LET sinkBits == IF 32 \in bits THEN 32 ELSE IF 24 \in bits THEN 24 ELSE 16
        r == IF f.isDSD THEN RingDSD(f.sampleRate \div 8, f.channels)
             ELSE RingPCM(f.sampleRate, f.channels, DirettaBps(sinkBits))
        direttaBps == DirettaBps(sinkBits)
        inputBps == InputBps(f)
        format == [FmtInit EXCEPT
                     !.m_sampleRate = IF f.isDSD THEN FmtInit.m_sampleRate ELSE f.sampleRate,
                     !.m_channels = f.channels,
                     !.m_bytesPerSample = IF f.isDSD THEN FmtInit.m_bytesPerSample
                                          ELSE direttaBps,
                     !.m_inputBytesPerSample = IF f.isDSD THEN FmtInit.m_inputBytesPerSample
                                               ELSE inputBps,
                     !.m_need24BitPack = ~f.isDSD /\ direttaBps = 3 /\ inputBps = 4,
                     !.m_need16To32Upsample = ~f.isDSD /\ direttaBps = 4 /\ inputBps = 2,
                     !.m_need16To24Upsample = ~f.isDSD /\ direttaBps = 3 /\ inputBps = 2,
                     !.m_isDsdMode = f.isDSD,
                     !.m_formatGeneration = 1, !.m_consumerStateGen = 1,
                     !.m_bytesPerFrame = r.bytesPerFrame,
                     !.m_framesPerBufferRemainder = r.framesRemainder,
                     !.m_bytesPerBuffer = r.bytesPerBuffer,
                     !.m_prefillTargetBuffers = r.buffers,
                     !.m_prefillTarget = r.prefillTarget]
    IN  /\ size_ = roundUpPow2(r.request)
        /\ buffer_ = ResizedBuffer(r.request, r.silence)
        /\ writePos_ = at
        /\ readPos_ = at
        /\ silenceByte_ = r.silence
        /\ pack = PackInit
        /\ prod = ProdIdle
        /\ cons = ConsIdle
        /\ written = 0
        /\ popped = <<>>
        /\ life = [LifeInit EXCEPT !.m_enabled = TRUE, !.m_sdkOpen = TRUE, !.m_open = TRUE,
                                   !.m_playing = TRUE, !.m_hasPreviousFormat = TRUE,
                                   !.m_previousFormat = f]
        /\ work = [WorkInit EXCEPT !.m_running = TRUE, !.thread = "running"]
        /\ gate = [GateInit EXCEPT !.m_postOnlineDelayDone = TRUE,
                                   !.m_prefillComplete = (at > 0)]
        /\ epoch = EpochInit
        /\ fmt = format
        /\ ccache = [m_cachedConsumerGen |-> 1,
                     m_cachedBytesPerBuffer |-> r.bytesPerBuffer,
                     m_cachedSilenceByte |-> r.silence,
                     m_cachedConsumerIsDsd |-> f.isDSD,
                     m_cachedConsumerSampleRate |-> format.m_sampleRate,
                     m_cachedBytesPerFrame |-> r.bytesPerFrame,
                     m_cachedFramesPerBufferRemainder |-> r.framesRemainder]
        /\ pcache = [m_cachedFormatGen |-> 1, m_cachedDsdMode |-> f.isDSD,
                     m_cachedPack24bit |-> format.m_need24BitPack,
                     m_cachedUpsample16to32 |-> format.m_need16To32Upsample,
                     m_cachedUpsample16to24 |-> format.m_need16To24Upsample,
                     m_cachedChannels |-> f.channels,
                     m_cachedBytesPerSample |-> format.m_bytesPerSample]
        /\ sdk = [open |-> TRUE, conn |-> TRUE, play |-> TRUE, online |-> TRUE,
                  sinkBits |-> bits]
        /\ wake = WakeInit
        /\ ctl = CtlInit
        /\ out = OutInit

InitPlay ==
    /\ \E at \in {0, roundUpPow2(RingCap) - 2} : Playing(PCM2k, {16}, at)
    /\ hist = [HistInit EXCEPT !.sends = PlaySends]
    /\ bridge = BridgeOff

\* the same with a budget of lifecycle calls
InitData ==
    /\ \E at \in {0, roundUpPow2(RingCap) - 2} : Playing(PCM1k, {16}, at)
    /\ hist = [HistInit EXCEPT !.keep = FALSE, !.calls = DataCalls, !.sends = DataSends]
    /\ bridge = BridgeOff

InitEpoch ==
    /\ Playing(PCM1k, {16}, roundUpPow2(RingCap) - 2)
    /\ hist = [HistInit EXCEPT !.keep = FALSE, !.calls = EpochCalls, !.sends = EpochSends]
    /\ bridge = BridgeOff

\* the steps of sendAudio between its entry and its return
SendInner ==
    \/ SendGateDraining
    \/ SendGateStop
    \/ SendGateOnline
    \/ SendGuardLoad
    \/ SendGuardEnter
    \/ SendGuardRecheck
    \/ SendCache
    \/ SendPush
    \/ PushRegion
    \/ PushCommit
    \/ PushSlowFirst
    \/ PushSlowSecond
    \/ PushSlowStore
    \/ SendPrefillTest
    \/ SendPrefillSet
    \/ SendExit

\* the steps of the producer thread inside sendAudio
SendSteps == SendInner \/ SendReturn

\* the steps of the producer thread in sendAudio
Sender == SendCall \/ SendSteps

\* the steps of the producer thread in getBufferLevel
Level ==
    \/ LevelCall
    \/ LevelRead

Producer == Sender \/ Level

\* the steps of the worker thread
Worker ==
    \/ WorkerLoop
    \/ SyncWorkerIdle
    \/ CycleBegin
    \/ CycleGuardLoad
    \/ CycleGuardEnter
    \/ CycleGuardRecheck
    \/ CycleGates
    \/ CycleAvail
    \/ CyclePop
    \/ PopFirst
    \/ PopSecond
    \/ PopStore
    \/ CycleEnd

NextPlay == Producer \/ Worker

SpecPlay == InitPlay /\ [][NextPlay]_vars

(***************************************************************************)
(* SpecCycle: the worker's cycles for a configured PCM format, their sizes  *)
(* recorded over a window of 1000 cycles                                    *)
(***************************************************************************)
PCM48 == [sampleRate |-> 48000, bitDepth |-> 16, channels |-> 2, isDSD |-> FALSE]
PCM11 == [sampleRate |-> 11025, bitDepth |-> 16, channels |-> 1, isDSD |-> FALSE]
PCM88x24 == [sampleRate |-> 88200, bitDepth |-> 24, channels |-> 2, isDSD |-> FALSE]

\* the sum of the cycle sizes sizes[lo] .. sizes[hi]
RECURSIVE SumRange(_, _, _)
SumRange(sizes, lo, hi) ==
    IF lo > hi THEN 0
    ELSE IF lo = hi THEN sizes[lo]
    ELSE LET mid == (lo + hi) \div 2
         IN  SumRange(sizes, lo, mid) + SumRange(sizes, mid + 1, hi)
\* the sum of a sequence of cycle sizes
SumSizes(sizes) == SumRange(sizes, 1, Len(sizes))

InitCycle ==
    \E f \in {PCM44, PCM48, PCM11, PCM88x24}, bits \in {{32}, {24}, {16}} :
        /\ Playing(f, bits, 0)
        /\ hist = [HistInit EXCEPT !.record = TRUE]
        /\ bridge = BridgeOff

NextCycle ==
    \/ WorkerLoop
    \/ SyncWorkerIdle
    \/ CycleBegin
    \/ CycleGuardLoad
    \/ CycleGuardEnter
    \/ CycleGuardRecheck
    \/ CycleGates

SpecCycle == InitCycle /\ [][NextCycle]_vars

(***************************************************************************)
(* SpecData: playback with pausePlayback, resumePlayback and open() of the  *)
(* format being played                                                      *)
(***************************************************************************)
\* steps of control thread t shared by several lifecycle calls
Shared(t) ==
    \/ OpReturn(t)
    \/ ClearWrite(t)
    \/ ClearRead(t)
    \/ SilenceWait(t)
    \/ ActiveWait(t)


\* open(): fullReset, sink and ring configuration, connect sequence
OpenFull(t) ==
    \/ FullResetStop(t)
    \/ FullResetBegin(t)
    \/ FullResetSpin(t)
    \/ FullResetBody(t)
    \/ FullResetEnd(t)
    \/ FullResetResume(t)
    \/ ConfigMode(t)
    \/ ConfigSink(t)
    \/ ConfigRingBegin(t)
    \/ ConfigRingSpin(t)
    \/ ConfigRingFlags(t)
    \/ ConfigRingResize(t)
    \/ ConfigRingEnd(t)
    \/ OpenSetSink(t)
    \/ OpenPrepare(t)
    \/ OpenConnect(t)
    \/ OpenConnectWait(t)
    \/ OpenPrefill(t)
    \/ OpenPlay(t)
    \/ OpenOnline(t)
    \/ OpenDone(t)

\* close()
Close(t) ==
    \/ CloseCall(t)
    \/ CloseBegin(t)
    \/ CloseStop(t)
    \/ CloseFlags(t)


\* steps of control thread t shared by these calls
SharedData(t) ==
    \/ OpReturn(t)
    \/ ClearWrite(t)
    \/ ClearRead(t)
    \/ SilenceWait(t)

\* the thread that calls sendAudio is the one that makes the lifecycle calls, so a
\* sendAudio call and a lifecycle call never overlap
SerialSend == ctl["main"].pc = "idle" /\ SendCall
SerialOpen(t, f) == prod.pc = "idle" /\ life.m_open /\ OpenCall(t, f)
SerialPause(t) == prod.pc = "idle" /\ PauseCall(t)
SerialResume(t) == prod.pc = "idle" /\ ResumeCall(t)

NextData ==
    \/ SerialSend
    \/ SendSteps
    \/ Worker
    \/ SharedData("main")
    \/ SerialOpen("main", PCM1k)
    \/ OpenCompare("main")
    \/ QuickPrefill("main")
    \/ QuickPlay("main")
    \/ SerialPause("main")
    \/ PauseStop("main")
    \/ SerialResume("main")
    \/ ResumePrefill("main")
    \/ ResumePlay("main")

SpecData == InitData /\ [][NextData]_vars

(***************************************************************************)
(* SpecFill: SpecData with the bytes pushed before each clear remembered    *)
(***************************************************************************)
InitFill ==
    /\ \E at \in {0, roundUpPow2(RingCap) - 2} : Playing(PCM1k, {16}, at)
    /\ hist = [HistInit EXCEPT !.keep = FALSE, !.calls = DataCalls, !.sends = DataSends,
                               !.track = TRUE]
    /\ bridge = BridgeOff

SpecFill == InitFill /\ [][NextData]_vars

(***************************************************************************)
(* SpecEpoch: playback, close(), and open() of the closed adapter, whose    *)
(* fullReset and ring configuration run under the reconfigure guard         *)
(***************************************************************************)
\* guards that bail out because a reconfiguration began in between
GuardBail ==
    \/ SendGuardBail
    \/ CycleGuardBail

\* open() of a closed adapter up to fullReset
OpenClosed(t, f) ==
    \/ (~life.m_open /\ OpenCall(t, f))
    \/ OpenCompare(t)

NextEpoch ==
    \/ Sender
    \/ Worker
    \/ GuardBail
    \/ StoreVisible
    \/ Shared("main")
    \/ Close("main")
    \/ OpenClosed("main", PCM1k)
    \/ OpenFull("main")
    \/ OpenDelay("main")

SpecEpoch == InitEpoch /\ [][NextEpoch]_vars


(***************************************************************************)
(* SpecCache: SpecEpoch where the closed adapter is opened with another     *)
(* format than the one played before                                       *)
(***************************************************************************)
NextCache ==
    \/ Sender
    \/ Worker
    \/ GuardBail
    \/ StoreVisible
    \/ Shared("main")
    \/ Close("main")
    \/ OpenClosed("main", PCM2k)
    \/ OpenFull("main")
    \/ OpenDelay("main")

SpecCache == InitEpoch /\ [][NextCache]_vars
(***************************************************************************)
(* SpecReopen: open() of a new format on the adapter playing another one,   *)
(* with the worker thread, one control thread                               *)
(***************************************************************************)
\* the steps of the worker thread while no producer feeds the ring
WorkerSilent ==
    \/ WorkerLoop
    \/ SyncWorkerIdle
    \/ CycleBegin
    \/ CycleGuardLoad
    \/ CycleGuardEnter
    \/ CycleGuardRecheck
    \/ CycleGuardBail
    \/ CycleGates

\* the format-change paths of open() up to fullReset
OpenChange(t) ==
    \/ OpenCompare(t)
    \/ TeardownStop(t)
    \/ TeardownRunning(t)
    \/ TeardownClose(t)
    \/ TeardownReopen(t)

\* interruptibleWait of control thread t
Wait(t) ==
    \/ WaitLock(t)
    \/ WaitTest(t)

\* the steps shared by the lifecycle calls of control thread t
SharedLife(t) ==
    \/ OpReturn(t)
    \/ ClearWrite(t)
    \/ ClearRead(t)
    \/ ActiveWait(t)
    \/ JoinLock(t)
    \/ JoinWorker(t)

InitReopen ==
    /\ Playing(PCM44, {32}, 0)
    /\ hist = [HistInit EXCEPT !.keep = FALSE, !.calls = ReopenCalls]
    /\ bridge = BridgeOff

NextReopen ==
    \/ WorkerSilent
    \/ StoreVisible
    \/ TimerExpire
    \/ OpenDelay("main")
    \/ SpuriousWakeup
    \/ OpenCall("main", DSD64)
    \/ OpenChange("main")
    \/ Wait("main")
    \/ SharedLife("main")
    \/ OpenFull("main")

SpecReopen == InitReopen /\ [][NextReopen]_vars

(***************************************************************************)
(* SpecLife: enable, open, close, release and disable on the control        *)
(* thread, disable() on a second thread, and the worker thread              *)
(***************************************************************************)
\* enable()
Enable(t) ==
    \/ EnableCall(t)
    \/ OpenSyncConnection(t)
    \/ EnableDone(t)

\* open() of the format being played
Quick(t) ==
    \/ QuickSilence(t)
    \/ SilenceWait(t)
    \/ QuickPrefill(t)
    \/ QuickPlay(t)

\* release()
Release(t) ==
    \/ ReleaseCall(t)
    \/ ReleaseSdk(t)
    \/ ReleaseClose(t)
    \/ ReleaseDone(t)

\* disable()
Disable(t) ==
    \/ DisableCall(t)
    \/ DisableNotify(t)
    \/ DisableOpen(t)
    \/ DisableEnabled(t)
    \/ DisableClose(t)
    \/ DisableDone(t)

\* the calls and steps of the control thread
MainLife ==
    \/ Enable("main")
    \/ OpenCall("main", PCM44)
    \/ OpenCall("main", DSD64)
    \/ OpenChange("main")
    \/ Quick("main")
    \/ OpenFull("main")
    \/ Wait("main")
    \/ SharedLife("main")
    \/ Close("main")
    \/ Release("main")
    \/ Disable("main")

\* the second thread, which only calls disable()
AuxLife ==
    \/ Disable("aux")
    \/ CloseBegin("aux")
    \/ SilenceWait("aux")
    \/ CloseStop("aux")
    \/ CloseFlags("aux")
    \/ SharedLife("aux")

InitLife ==
    /\ \/ Constructed({32})
       \/ \E f \in {PCM44, DSD64} : Playing(f, {32}, 0)
    /\ hist = [HistInit EXCEPT !.keep = FALSE, !.calls = LifeCalls]
    /\ bridge = BridgeOff

NextLife ==
    \/ WorkerSilent
    \/ StoreVisible
    \/ TimerExpire
    \/ OpenDelay("main")
    \/ SpuriousWakeup
    \/ MainLife
    \/ AuxLife

SpecLife == InitLife /\ [][NextLife]_vars

(***************************************************************************)
(* SpecLifeFair: open() on the control thread and disable() on a second     *)
(* thread, with every thread that can take a step taking one eventually.    *)
(* The timeout of interruptibleWait, spurious wakeups and the callers'      *)
(* decisions to make a call are not under any fairness.                     *)
(***************************************************************************)
\* the steps of the control thread inside open()
MainSteps ==
    \/ OpenChange("main")
    \/ OpenFull("main")
    \/ Wait("main")
    \/ SharedLife("main")

\* the steps of the second thread inside disable()
AuxSteps ==
    \/ DisableNotify("aux")
    \/ DisableOpen("aux")
    \/ DisableEnabled("aux")
    \/ DisableClose("aux")
    \/ DisableDone("aux")
    \/ CloseBegin("aux")
    \/ SilenceWait("aux")
    \/ CloseStop("aux")
    \/ CloseFlags("aux")
    \/ SharedLife("aux")

\* the worker thread while the SDK asks for no stream
WorkerIdle ==
    \/ WorkerLoop
    \/ SyncWorkerIdle

InitFair ==
    /\ Playing(PCM48, {32}, 0)
    /\ hist = [HistInit EXCEPT !.keep = FALSE, !.calls = FairCalls]
    /\ bridge = BridgeOff

NextFair ==
    \/ WorkerIdle
    \/ StoreVisible
    \/ TimerExpire
    \/ OpenDelay("main")
    \/ SpuriousWakeup
    \/ OpenCall("main", DSD64)
    \/ MainSteps
    \/ DisableCall("aux")
    \/ AuxSteps

SpecLifeFair ==
    /\ InitFair
    /\ [][NextFair]_vars
    /\ WF_vars(MainSteps)
    /\ WF_vars(AuxSteps)
    /\ WF_vars(WorkerIdle)
    /\ WF_vars(StoreVisible)

(***************************************************************************)
(* The bridge: the steady-state loop of main() in the wrapper, which reads  *)
(* the pipe from squeezelite and passes each chunk to sendAudio             *)
(***************************************************************************)
\* the format the bridge streams
BridgeFormat == PCM1k
\* bytes_per_frame = (format.bitDepth / 8) * format.channels
bytes_per_frame == (BridgeFormat.bitDepth \div 8) * BridgeFormat.channels
\* buffer_size = CHUNK_SIZE * bytes_per_frame, with CHUNK_SIZE scaled to BridgeFrames
buffer_size == BridgeFrames * bytes_per_frame

\* the bridge in its steady-state loop, about to read
BridgeSteady == [BridgeOff EXCEPT !.pc = "read"]

\* bytes_read = read(fifo_fd, buffer.data(), buffer_size): the next bytes of the pipe,
\* whatever they are, at most buffer_size of them (the writer writes whole frames);
\* at the end of the pipe read returns 0 and the loop is left
BridgeRead ==
    /\ bridge.pc = "read"
    /\ LET consumed == bridge.base + bridge.len
       IN  IF consumed = PipeLen
           THEN bridge' = [bridge EXCEPT !.pc = "done", !.base = consumed, !.len = 0]
           ELSE \E num_frames \in 1..BridgeFrames :
                   /\ consumed + num_frames * bytes_per_frame <= PipeLen
                   /\ bridge' = [bridge EXCEPT !.pc = "send", !.base = consumed,
                                               !.len = num_frames * bytes_per_frame]
    /\ UNCHANGED <<ringVars, dataVars, adapterVars>>

\* num_frames = bytes_read / bytes_per_frame, num_samples = num_frames,
\* written = g_diretta->sendAudio(buffer.data(), num_samples): the call is entered
BridgeSend ==
    /\ bridge.pc = "send"
    /\ prod.pc = "idle"
    /\ prod' = [ProdIdle EXCEPT !.pc = "sa_drain", !.op = "send",
                                !.n = bridge.len \div bytes_per_frame]
    /\ bridge' = [bridge EXCEPT !.pc = "sent"]
    /\ UNCHANGED <<ringVars, cons, written, popped, adapterVars>>

\* the loop with the value sendAudio returned: on 0 while isPlaying() it sleeps 500 us
\* and continues, otherwise it adds bytes_read to the totals and sleeps to the rate;
\* either way the next iteration starts at read()
BridgeReturn ==
    /\ bridge.pc = "sent"
    /\ prod.pc = "sa_ret"
    /\ prod' = ProdIdle
    /\ bridge' = IF prod.ret = 0 /\ life.m_playing
                 THEN [bridge EXCEPT !.pc = "read"]
                 ELSE [bridge EXCEPT !.pc = "read",
                                     !.total_bytes = bridge.total_bytes + bridge.len]
    /\ UNCHANGED <<ringVars, cons, written, popped, adapterVars>>

InitBridge ==
    /\ Playing(BridgeFormat, {16}, 0)
    /\ hist = HistInit
    /\ bridge = BridgeSteady

NextBridge ==
    \/ BridgeRead
    \/ BridgeSend
    \/ SendInner
    \/ BridgeReturn
    \/ Worker

SpecBridge == InitBridge /\ [][NextBridge]_vars

(***************************************************************************)
(* SpecBurst: the burst-fill loop of main() after open() has succeeded.    *)
(* The ring has its full size here and is followed by its positions only   *)
(* (buffer_ is left empty): until prefill completes getNewStream emits      *)
(* silence and pops nothing, so only sendAudio moves a position.  Time is   *)
(* counted in poll timeouts: an iteration that finds the pipe empty has     *)
(* spent POLL_MS in poll(), any other iteration is taken to cost nothing.   *)
(***************************************************************************)
PCM768x32 == [sampleRate |-> 768000, bitDepth |-> 32, channels |-> 2, isDSD |-> FALSE]
BurstFormats == {PCM48, PCM768x32}

\* configureRingPCM for format f on a sink that takes f's width, the ring unscaled
BurstRing(f) ==
    LET direttaBps == DirettaBps(f.bitDepth)
        bytesPerSecond == f.sampleRate * f.channels * direttaBps
        request == calculateBufferSize(bytesPerSecond, 5)
        bytesPerFrame == f.channels * direttaBps
        framesRemainder == FramesRemainder(f.sampleRate)
        bytesPerBuffer == (f.sampleRate \div 1000) * bytesPerFrame
        buffers == calculateAlignedPrefill(bytesPerSecond, bytesPerBuffer, FALSE,
                                           roundUpPow2(request))
    IN  [size |-> roundUpPow2(request),
         prefillTarget |-> IF framesRemainder = 0 THEN buffers * bytesPerBuffer
                           ELSE PatternSum(buffers, 0, framesRemainder, bytesPerBuffer,
                                           bytesPerFrame)]

\* the state open(f) leaves, the bridge entering the burst-fill loop; the sink may
\* have gone offline since
InitBurst ==
    \E f \in BurstFormats, online \in BOOLEAN :
        /\ size_ = BurstRing(f).size
        /\ buffer_ = <<>>
        /\ writePos_ = 0
        /\ readPos_ = 0
        /\ silenceByte_ = PcmSilence
        /\ pack = PackInit
        /\ prod = ProdIdle
        /\ cons = ConsIdle
        /\ written = 0
        /\ popped = <<>>
        /\ life = [LifeInit EXCEPT !.m_enabled = TRUE, !.m_sdkOpen = TRUE, !.m_open = TRUE,
                                   !.m_playing = TRUE, !.m_hasPreviousFormat = TRUE,
                                   !.m_previousFormat = f]
        /\ work = [WorkInit EXCEPT !.m_running = TRUE, !.thread = "running"]
        /\ gate = GateInit
        /\ epoch = EpochInit
        /\ fmt = [FmtInit EXCEPT !.m_sampleRate = f.sampleRate, !.m_channels = f.channels,
                                 !.m_bytesPerSample = DirettaBps(f.bitDepth),
                                 !.m_inputBytesPerSample = InputBps(f),
                                 !.m_formatGeneration = 1, !.m_consumerStateGen = 1,
                                 !.m_prefillTarget = BurstRing(f).prefillTarget]
        /\ ccache = CCacheInit
        /\ pcache = PCacheInit
        /\ sdk = [open |-> TRUE, conn |-> TRUE, play |-> TRUE, online |-> online,
                  sinkBits |-> {f.bitDepth}]
        /\ wake = WakeInit
        /\ ctl = CtlInit
        /\ out = OutInit
        /\ hist = HistInit
        /\ bridge = [BridgeOff EXCEPT !.pc = "bf_test"]

\* while (!g_diretta->isPrefillComplete() && running), then the timeout check:
\* elapsed > burst_timeout breaks
BurstLoop ==
    /\ bridge.pc = "bf_test"
    /\ bridge' = IF gate.m_prefillComplete THEN [bridge EXCEPT !.pc = "bf_done"]
                 ELSE IF bridge.polls * POLL_MS >= BURST_TIMEOUT_MS
                      THEN [bridge EXCEPT !.pc = "bf_done", !.timeout = TRUE]
                      ELSE [bridge EXCEPT !.pc = "bf_poll"]
    /\ UNCHANGED <<ringVars, dataVars, adapterVars>>

\* sendAudio as one step, on the PCM direct-copy path: the value it returns for
\* totalBytes bytes
BurstWritten(totalBytes) ==
    IF gate.m_draining \/ gate.m_stopRequested \/ ~sdk.online \/ epoch.m_reconfiguring
    THEN 0
    ELSE Min(totalBytes, getFreeSpace)

\* sendAudio as one step: push() advances writePos_, and a call that wrote sets
\* m_prefillComplete once getAvailable() has reached m_prefillTarget
BurstSendAudio(totalBytes) ==
    LET w == BurstWritten(totalBytes)
        wp == AndMask(writePos_ + w, size_)
    IN  /\ writePos_' = wp
        /\ gate' = IF w > 0 /\ ~gate.m_prefillComplete
                      /\ AvailableOf(wp, readPos_, size_) >= fmt.m_prefillTarget
                   THEN [gate EXCEPT !.m_prefillComplete = TRUE]
                   ELSE gate

\* poll() finds data: read() returns a full buffer of CHUNK_SIZE frames, which goes to
\* sendAudio; the value sendAudio returns is not used
BurstData ==
    /\ bridge.pc = "bf_poll"
    /\ LET f == life.m_previousFormat
       IN  BurstSendAudio(CHUNK_SIZE * (f.bitDepth \div 8) * f.channels)
    /\ bridge' = [bridge EXCEPT !.pc = "bf_test"]
    /\ UNCHANGED <<size_, buffer_, readPos_, silenceByte_, pack, dataVars, life, work, epoch, fmt,
                   ccache, pcache, sdk, wake, ctl, out, hist>>

\* poll() times out after POLL_MS with the pipe empty: a silence chunk of
\* SILENCE_CHUNK bytes goes to sendAudio
BurstSilence ==
    /\ bridge.pc = "bf_poll"
    /\ BurstSendAudio(SILENCE_CHUNK)
    /\ bridge' = [bridge EXCEPT !.pc = "bf_test", !.polls = bridge.polls + 1]
    /\ UNCHANGED <<size_, buffer_, readPos_, silenceByte_, pack, dataVars, life, work, epoch, fmt,
                   ccache, pcache, sdk, wake, ctl, out, hist>>

NextBurst ==
    \/ BurstLoop
    \/ BurstData
    \/ BurstSilence

SpecBurst == InitBurst /\ [][NextBurst]_vars

(***************************************************************************)
(* SpecDsd: open() of DSD128 on the adapter playing PCM 44100/16/2, with    *)
(* the worker thread, one control thread                                    *)
(***************************************************************************)
DSD128 == [sampleRate |-> 5644800, bitDepth |-> 1, channels |-> 2, isDSD |-> TRUE]

InitDsd ==
    /\ Playing(PCM44, {32}, 0)
    /\ hist = [HistInit EXCEPT !.keep = FALSE, !.calls = ReopenCalls]
    /\ bridge = BridgeOff

NextDsd ==
    \/ WorkerSilent
    \/ StoreVisible
    \/ TimerExpire
    \/ OpenDelay("main")
    \/ SpuriousWakeup
    \/ OpenCall("main", DSD128)
    \/ OpenChange("main")
    \/ Wait("main")
    \/ SharedLife("main")
    \/ OpenFull("main")

SpecDsd == InitDsd /\ [][NextDsd]_vars
(***************************************************************************)
(* SpecStab: the adapter is closed and opened again (the full path of       *)
(* open()), then the thread that opened it calls sendAudio; the worker      *)
(* runs getNewStream throughout                                             *)
(***************************************************************************)
InitStab ==
    /\ Playing(PCM1k, {16}, roundUpPow2(RingCap) - 2)
    /\ hist = [HistInit EXCEPT !.keep = FALSE, !.calls = EpochCalls, !.sends = StabSends,
                               !.track = TRUE]
    /\ bridge = BridgeOff

NextStab ==
    \/ SerialSend
    \/ SendSteps
    \/ Worker
    \/ CycleGuardBail
    \/ StoreVisible
    \/ Shared("main")
    \/ (prod.pc = "idle" /\ CloseCall("main"))
    \/ CloseBegin("main")
    \/ CloseStop("main")
    \/ CloseFlags("main")
    \/ (prod.pc = "idle" /\ OpenClosed("main", PCM1k))
    \/ OpenFull("main")
    \/ OpenDelay("main")

SpecStab == InitStab /\ [][NextStab]_vars

(***************************************************************************)
(* SpecStop: stopPlayback, startPlayback, pausePlayback and resumePlayback  *)
(* on the thread that feeds the adapter playing PCM, with the worker thread *)
(***************************************************************************)
\* lifecycle calls and sendAudio calls in a behaviour of SpecStop
StopCalls == 2
StopSends == 1

SerialStop(t) == prod.pc = "idle" /\ StopCall(t)
SerialStart(t) == prod.pc = "idle" /\ StartCall(t)

InitStop ==
    /\ \E at \in {0, roundUpPow2(RingCap) - 2} : Playing(PCM1k, {16}, at)
    /\ hist = [HistInit EXCEPT !.keep = FALSE, !.calls = StopCalls, !.sends = StopSends]
    /\ bridge = BridgeOff

NextStop ==
    \/ SerialSend
    \/ SendSteps
    \/ Worker
    \/ SharedData("main")
    \/ SerialStop("main")
    \/ StopStop("main")
    \/ SerialStart("main")
    \/ StartPlay("main")
    \/ SerialPause("main")
    \/ PauseStop("main")
    \/ ResumePrefill("main")
    \/ ResumePlay("main")

SpecStop == InitStop /\ [][NextStop]_vars

(***************************************************************************)
(* SpecFrame: sendAudio calls that fill the ring of the adapter playing     *)
(* PCM, with the worker thread                                              *)
(***************************************************************************)
\* sendAudio calls in a behaviour of SpecFrame
FrameSends == 4

InitFrame ==
    /\ \E at \in {0, roundUpPow2(RingCap) - 2} : Playing(PCM1k, {16}, at)
    /\ hist = [HistInit EXCEPT !.keep = FALSE, !.sends = FrameSends]
    /\ bridge = BridgeOff

NextFrame ==
    \/ Sender
    \/ Worker

SpecFrame == InitFrame /\ [][NextFrame]_vars

(***************************************************************************)
(* SpecWake: enable, open, close, release and disable on one control        *)
(* thread, with the worker thread while the SDK asks for no stream          *)
(***************************************************************************)
\* lifecycle calls in a behaviour of SpecWake
WakeCalls == 4

InitWake ==
    /\ Playing(PCM44, {32}, 0)
    /\ hist = [HistInit EXCEPT !.keep = FALSE, !.calls = WakeCalls]
    /\ bridge = BridgeOff

NextWake ==
    \/ WorkerIdle
    \/ StoreVisible
    \/ TimerExpire
    \/ OpenDelay("main")
    \/ SpuriousWakeup
    \/ MainLife

SpecWake == InitWake /\ [][NextWake]_vars

(***************************************************************************)
(* DirettaRingBuffer: the converting push variants.  The contents of the   *)
(* ring are not followed here (buffer_ stays empty): a call keeps the      *)
(* bytes it staged and handed to writeToRing, and the ring its positions.  *)
(***************************************************************************)
STAGING_SIZE == 65536

\* one DSD call of the C26 example: L = 80 40 20 10, R = 01 02 04 08 (hex)
DsdExample == <<128, 64, 32, 16, 1, 2, 4, 8>>

\* byte j (from 0) of the planar input of a pushDSDPlanarOptimized call
SrcByte(call, j) == IF call.example THEN DsdExample[j + 1] ELSE (j % 251) + 1

kBitReverseLUT ==
    <<0, 128, 64, 192, 32, 160, 96, 224, 16, 144, 80, 208, 48, 176, 112, 240,
      8, 136, 72, 200, 40, 168, 104, 232, 24, 152, 88, 216, 56, 184, 120, 248,
      4, 132, 68, 196, 36, 164, 100, 228, 20, 148, 84, 212, 52, 180, 116, 244,
      12, 140, 76, 204, 44, 172, 108, 236, 28, 156, 92, 220, 60, 188, 124, 252,
      2, 130, 66, 194, 34, 162, 98, 226, 18, 146, 82, 210, 50, 178, 114, 242,
      10, 138, 74, 202, 42, 170, 106, 234, 26, 154, 90, 218, 58, 186, 122, 250,
      6, 134, 70, 198, 38, 166, 102, 230, 22, 150, 86, 214, 54, 182, 118, 246,
      14, 142, 78, 206, 46, 174, 110, 238, 30, 158, 94, 222, 62, 190, 126, 254,
      1, 129, 65, 193, 33, 161, 97, 225, 17, 145, 81, 209, 49, 177, 113, 241,
      9, 137, 73, 201, 41, 169, 105, 233, 25, 153, 89, 217, 57, 185, 121, 249,
      5, 133, 69, 197, 37, 165, 101, 229, 21, 149, 85, 213, 53, 181, 117, 245,
      13, 141, 77, 205, 45, 173, 109, 237, 29, 157, 93, 221, 61, 189, 125, 253,
      3, 131, 67, 195, 35, 163, 99, 227, 19, 147, 83, 211, 51, 179, 115, 243,
      11, 139, 75, 203, 43, 171, 107, 235, 27, 155, 91, 219, 59, 187, 123, 251,
      7, 135, 71, 199, 39, 167, 103, 231, 23, 151, 87, 215, 55, 183, 119, 247,
      15, 143, 79, 207, 47, 175, 111, 239, 31, 159, 95, 223, 63, 191, 127, 255>>
\* DSDConversionMode: which modes reverse the bits of a byte, which the bytes of a group
Reverses(mode) == mode \in {"BitReverseOnly", "BitReverseAndSwap"}
Swaps(mode) == mode \in {"ByteSwapOnly", "BitReverseAndSwap"}

\* a scalar loop that keeps the bytes of a group in place in every mode
ScalarByte_NoSwap(call, bytesPerChannel, o) ==
    LET i == (o \div (4 * call.numChannels)) * 4
        ch == (o \div 4) % call.numChannels
        at == ch * bytesPerChannel + i + (o % 4)
    IN  IF Reverses(call.mode) THEN kBitReverseLUT[SrcByte(call, at) + 1]
        ELSE SrcByte(call, at)
\* the scalar loops of convertDSD_Passthrough / _BitReverse / _ByteSwap / _BitReverseSwap:
\* output byte o (from 0), taken from group i / 4 of channel ch at chOffset
ScalarByte(call, bytesPerChannel, o) ==
    LET i == (o \div (4 * call.numChannels)) * 4
        ch == (o \div 4) % call.numChannels
        chOffset == ch * bytesPerChannel
        at == chOffset + i + (IF Swaps(call.mode) THEN 3 - (o % 4) ELSE o % 4)
    IN  IF Reverses(call.mode) THEN kBitReverseLUT[SrcByte(call, at) + 1]
        ELSE SrcByte(call, at)

\* the AVX2 operations of the stereo loops, on vectors of 32 bytes (index 0..31)
nibble_reverse == <<0, 8, 4, 12, 2, 10, 6, 14, 1, 9, 5, 13, 3, 11, 7, 15>>
byteswap_mask == <<3, 2, 1, 0, 7, 6, 5, 4, 11, 10, 9, 8, 15, 14, 13, 12>>
simd_bit_reverse(x) ==
    [k \in 0..31 |-> nibble_reverse[(x[k] % 16) + 1] * 16 + nibble_reverse[(x[k] \div 16) + 1]]
mm256_unpacklo_epi32(a, b) ==
    [k \in 0..31 |-> LET lane == k \div 16
                         w == (k % 16) \div 4
                         from == lane * 16 + (w \div 2) * 4 + (k % 4)
                     IN  IF w % 2 = 0 THEN a[from] ELSE b[from]]
mm256_unpackhi_epi32(a, b) ==
    [k \in 0..31 |-> LET lane == k \div 16
                         w == (k % 16) \div 4
                         from == lane * 16 + (2 + w \div 2) * 4 + (k % 4)
                     IN  IF w % 2 = 0 THEN a[from] ELSE b[from]]
mm256_shuffle_epi8(a, mask) ==
    [k \in 0..31 |-> a[(k \div 16) * 16 + mask[(k % 16) + 1]]]
mm256_permute2x128_si256(a, b, imm) ==
    [k \in 0..31 |-> LET sel == IF k < 16 THEN imm % 16 ELSE imm \div 16
                         from == (sel % 2) * 16 + (k % 16)
                     IN  IF sel \div 2 = 0 THEN a[from] ELSE b[from]]

\* one iteration of the AVX2 loop at byte i of each channel: the 64 bytes it stores
AvxChunk(call, bytesPerChannel, i) ==
    LET load(base) == [k \in 0..31 |-> SrcByte(call, base + i + k)]
        left == IF Reverses(call.mode) THEN simd_bit_reverse(load(0)) ELSE load(0)
        right == IF Reverses(call.mode) THEN simd_bit_reverse(load(bytesPerChannel))
                 ELSE load(bytesPerChannel)
        lo == mm256_unpacklo_epi32(left, right)
        hi == mm256_unpackhi_epi32(left, right)
        interleaved_lo == IF Swaps(call.mode) THEN mm256_shuffle_epi8(lo, byteswap_mask) ELSE lo
        interleaved_hi == IF Swaps(call.mode) THEN mm256_shuffle_epi8(hi, byteswap_mask) ELSE hi
        out0 == mm256_permute2x128_si256(interleaved_lo, interleaved_hi, 32)
        out1 == mm256_permute2x128_si256(interleaved_lo, interleaved_hi, 49)
    IN  [k \in 0..63 |-> IF k < 32 THEN out0[k] ELSE out1[k - 32]]

\* convertDSD_*(dst, src, totalInputBytes, numChannels): the bytes staged.  With AVX2
\* and two channels the vector loop takes the 32-byte blocks and a scalar tail the
\* remaining whole groups; otherwise the scalar loop takes every group begun.
convertDSD(call, totalInputBytes) ==
    LET bytesPerChannel == totalInputBytes \div call.numChannels
        vector == call.avx2 /\ call.numChannels = 2
        blocks == IF vector THEN bytesPerChannel \div 32 ELSE 0
        groups == IF vector THEN bytesPerChannel \div 4 ELSE (bytesPerChannel + 3) \div 4
        outputBytes == groups * 4 * call.numChannels
        chunk == [it \in 0..(blocks - 1) |-> AvxChunk(call, bytesPerChannel, it * 32)]
    IN  [o \in 1..outputBytes |->
            IF o - 1 < blocks * 64 THEN chunk[(o - 1) \div 64][(o - 1) % 64]
            ELSE ScalarByte(call, bytesPerChannel, o - 1)]

\* writeToRing(staged, len): the bytes it takes, by the free space it finds
WriteToRingLen(len) == IF size_ = 0 THEN 0 ELSE Min(len, LinearFree(writePos_, readPos_, size_))

\* the producer before a call of a converting push, and after it
ConvCall(op, call) == [pc |-> "call", op |-> op, call |-> call, staged |-> <<>>, ret |-> 0,
                       n |-> 0, free |-> 0, active |-> FALSE]

\* pushDSDPlanarOptimized(data, inputSize, numChannels, mode)
PushDsdPlanar ==
    /\ prod.pc = "call"
    /\ prod.op = "dsd"
    /\ LET c == prod.call
           free == getFreeSpace
           maxBytes == Min(Min(c.inputSize, STAGING_SIZE), free)
           bytesPerChannel == IF c.numChannels = 0 THEN 0 ELSE maxBytes \div c.numChannels
           completeGroups == bytesPerChannel \div 4
           usableInput == completeGroups * 4 * c.numChannels
           staged == convertDSD(c, usableInput)
           len == WriteToRingLen(Len(staged))
       IN  IF size_ = 0 \/ c.numChannels = 0 \/ usableInput = 0
           THEN /\ prod' = [prod EXCEPT !.pc = "done", !.free = free]
                /\ writePos_' = writePos_
           ELSE /\ prod' = [prod EXCEPT !.pc = "done", !.free = free, !.n = completeGroups,
                                        !.staged = SubSeq(staged, 1, len), !.ret = len]
                /\ writePos_' = AndMask(writePos_ + len, size_)
    /\ UNCHANGED <<bridge, size_, buffer_, readPos_, silenceByte_, pack, cons, written, popped,
                   adapterVars>>

(***************************************************************************)
(* SpecPlanar: one pushDSDPlanarOptimized call on the ring of a DSD64      *)
(* stereo stream, for inputs of several sizes, channel counts, modes and   *)
(* builds and for several amounts of free space                            *)
(***************************************************************************)
DsdModes == {"Passthrough", "BitReverseOnly", "ByteSwapOnly", "BitReverseAndSwap"}

\* the calls: the C26 example, and inputs that hold no whole group, whole groups
\* only, a partial group, enough for the vector loop, and more than the staging area
DsdCalls ==
    [inputSize : {8}, numChannels : {2}, mode : DsdModes, avx2 : BOOLEAN, example : {TRUE}]
    \cup [inputSize : DsdSizes, numChannels : 0..MaxChannels, mode : DsdModes,
          avx2 : BOOLEAN, example : {FALSE}]

InitPlanar ==
    /\ size_ = roundUpPow2(calculateBufferSize((DSD64.sampleRate \div 8) * DSD64.channels, 8))
    /\ buffer_ = <<>>
    /\ readPos_ = 0
    /\ \E free \in DsdFree \cup {size_ - 1} : writePos_ = size_ - 1 - free
    /\ silenceByte_ = DsdSilence
    /\ pack = PackInit
    /\ \E call \in DsdCalls : prod = ConvCall("dsd", call)
    /\ cons = ConsIdle
    /\ written = 0
    /\ popped = <<>>
    /\ life = LifeInit
    /\ work = WorkInit
    /\ gate = GateInit
    /\ epoch = EpochInit
    /\ fmt = FmtInit
    /\ ccache = CCacheInit
    /\ pcache = PCacheInit
    /\ sdk = SdkInit({32})
    /\ wake = WakeInit
    /\ ctl = CtlInit
    /\ out = OutInit
    /\ hist = HistInit
    /\ bridge = BridgeOff

NextPlanar == PushDsdPlanar

SpecPlanar == InitPlanar /\ [][NextPlanar]_vars


(***************************************************************************)
(* DirettaRingBuffer: 24-bit packing with detection of the sample layout   *)
(***************************************************************************)
DEFERRED_TIMEOUT_SAMPLES == 48000
\* the number of samples detectS24PackMode looks at
DETECT_SAMPLES == 64

\* the 4-byte input samples the calls are made of: silence, a sample with data in
\* bytes 0..2, one with data in bytes 1..3, one with data in bytes 1..2 only, and
\* one with data in all four bytes
SampleKinds == {"zero", "lsb", "msb", "mid", "both"}
Quad(kind) ==
    CASE kind = "zero" -> <<0, 0, 0, 0>>
      [] kind = "lsb" -> <<17, 34, 51, 0>>
      [] kind = "msb" -> <<0, 18, 35, 52>>
      [] kind = "mid" -> <<0, 19, 36, 0>>
      [] kind = "both" -> <<20, 37, 54, 71>>

\* sample i (from 0) of the input of a call: its first call.k samples are of kind
\* call.head, the others of kind call.tail
Sample(call, i) == Quad(IF i < call.k THEN call.head ELSE call.tail)

\* a detection that looks at every sample of the call
detectS24PackMode_Whole(call, numSamples) ==
    LET allZeroLSB == \A i \in 0..(numSamples - 1) : Sample(call, i)[1] = 0
        allZeroMSB == \A i \in 0..(numSamples - 1) : Sample(call, i)[4] = 0
    IN  IF ~allZeroLSB /\ allZeroMSB THEN "LsbAligned"
        ELSE IF allZeroLSB /\ ~allZeroMSB THEN "MsbAligned"
        ELSE IF allZeroLSB /\ allZeroMSB THEN "Deferred"
        ELSE "LsbAligned"
\* detectS24PackMode(data, numSamples)
detectS24PackMode(call, numSamples) ==
    LET checkSamples == Min(numSamples, DETECT_SAMPLES)
        allZeroLSB == \A i \in 0..(checkSamples - 1) : Sample(call, i)[1] = 0
        allZeroMSB == \A i \in 0..(checkSamples - 1) : Sample(call, i)[4] = 0
    IN  IF ~allZeroLSB /\ allZeroMSB THEN "LsbAligned"
        ELSE IF allZeroLSB /\ ~allZeroMSB THEN "MsbAligned"
        ELSE IF allZeroLSB /\ allZeroMSB THEN "Deferred"
        ELSE "LsbAligned"

\* convert24BitPacked_AVX2 / convert24BitPackedShifted_AVX2 on one sample
convert24BitPacked(q) == <<q[1], q[2], q[3]>>
convert24BitPackedShifted(q) == <<q[2], q[3], q[4]>>

\* the staged output of a conversion of numSamples samples, as runs <<count, bytes>>
\* of equal consecutive packed samples
StagedRuns(call, numSamples, shifted) ==
    LET conv(q) == IF shifted THEN convert24BitPackedShifted(q) ELSE convert24BitPacked(q)
        first == Min(call.k, numSamples)
    IN  (IF first > 0 THEN <<<<first, conv(Sample(call, 0))>>>> ELSE <<>>)
        \o (IF numSamples > first THEN <<<<numSamples - first, conv(Sample(call, first))>>>>
            ELSE <<>>)

\* push24BitPacked: the detection block, on the S24 fields p, for a call whose
\* detection gave detected and which takes numSamples samples
S24Decide(p, detected, numSamples) ==
    IF detected # "Deferred"
    THEN [p EXCEPT !.m_s24PackMode = detected, !.m_s24DetectionConfirmed = TRUE,
                   !.m_deferredSampleCount = 0]
    ELSE LET count == p.m_deferredSampleCount + numSamples
         IN  IF count > DEFERRED_TIMEOUT_SAMPLES
             THEN [p EXCEPT !.m_deferredSampleCount = count,
                            !.m_s24PackMode = IF p.m_s24Hint # "Unknown" THEN p.m_s24Hint
                                              ELSE "LsbAligned",
                            !.m_s24DetectionConfirmed = TRUE]
             ELSE [p EXCEPT !.m_deferredSampleCount = count]

\* push24BitPacked: whether the detection block runs
S24Detects(p) ==
    \/ p.m_s24PackMode = "Unknown"
    \/ p.m_s24PackMode = "Deferred"
    \/ (p.m_s24PackMode = p.m_s24Hint /\ ~p.m_s24DetectionConfirmed)

\* the number of ring calls made so far is below the bound
PackBudget == hist.sends < PackCalls

\* push24BitPacked(data, inputSize) with inputSize = 4 * call.n
Push24BitPacked ==
    /\ prod.pc \in {"idle", "done"}
    /\ PackBudget
    /\ \E call \in [n : PackSizes, k : {0, 63, 64}, head : {"zero", "lsb", "msb"}, tail : SampleKinds] :
        /\ call.k = 0 => call.head = "zero"
        /\ call.k < call.n \/ call.tail = "zero"
        /\ LET free == getFreeSpace
               numSamples == Min(Min(call.n, STAGING_SIZE \div 3), free \div 3)
               detects == S24Detects(pack)
               detected == IF detects THEN detectS24PackMode(call, numSamples) ELSE "none"
               after == IF detects THEN S24Decide(pack, detected, numSamples) ELSE pack
               effectiveMode == IF after.m_s24PackMode \in {"Deferred", "Unknown"}
                                THEN IF after.m_s24Hint # "Unknown" THEN after.m_s24Hint
                                     ELSE "LsbAligned"
                                ELSE after.m_s24PackMode
               staged == StagedRuns(call, numSamples, effectiveMode = "MsbAligned")
               written_ == WriteToRingLen(numSamples * 3)
               done == [ConvCall("s24", call) EXCEPT !.pc = "done", !.free = free]
           IN  IF size_ = 0 \/ numSamples = 0
               THEN /\ prod' = done
                    /\ UNCHANGED <<writePos_, pack>>
               ELSE /\ prod' = [done EXCEPT !.n = numSamples, !.staged = staged,
                                            !.ret = (written_ \div 3) * 4]
                    /\ pack' = after
                    /\ writePos_' = AndMask(writePos_ + written_, size_)
    /\ hist' = [hist EXCEPT !.sends = hist.sends + 1,
                             !.decided = IF hist.decided = "none" /\ pack'.m_s24DetectionConfirmed
                                         THEN pack'.m_s24PackMode ELSE hist.decided]
    /\ UNCHANGED <<bridge, size_, buffer_, readPos_, silenceByte_, cons, written, popped, life,
                   work, gate, epoch, fmt, ccache, pcache, sdk, wake, ctl, out>>

\* setS24PackModeHint(hint)
setS24PackModeHint ==
    /\ prod.pc \in {"idle", "done"}
    /\ PackBudget
    /\ \E hint \in {"LsbAligned", "MsbAligned"} :
         pack' = [pack EXCEPT !.m_s24Hint = hint,
                              !.m_s24DetectionConfirmed = FALSE,
                              !.m_s24PackMode = IF pack.m_s24PackMode \in {"Unknown", "Deferred"}
                                                THEN hint ELSE pack.m_s24PackMode]
    /\ prod' = ProdIdle
    /\ hist' = [hist EXCEPT !.sends = hist.sends + 1]
    /\ UNCHANGED <<bridge, size_, buffer_, writePos_, readPos_, silenceByte_, cons, written,
                   popped, life, work, gate, epoch, fmt, ccache, pcache, sdk, wake, ctl, out>>

\* clear(), between two calls of the producer
RingClear ==
    /\ prod.pc \in {"idle", "done"}
    /\ PackBudget
    /\ writePos_' = 0
    /\ readPos_' = 0
    /\ pack' = PackInit
    /\ prod' = ProdIdle
    /\ hist' = [hist EXCEPT !.sends = hist.sends + 1, !.decided = "none"]
    /\ UNCHANGED <<bridge, size_, buffer_, silenceByte_, cons, written, popped, life, work, gate,
                   epoch, fmt, ccache, pcache, sdk, wake, ctl, out>>

(***************************************************************************)
(* SpecPack: pushes of 32-bit samples into the ring of a 24-bit sink,      *)
(* hints and clears, in any order                                          *)
(***************************************************************************)
InitPack ==
    /\ size_ = roundUpPow2(calculateBufferSize(PCM88x24.sampleRate * PCM88x24.channels * 3, 5))
    /\ buffer_ = <<>>
    /\ readPos_ = 0
    /\ \E free \in PackFree \cup {size_ - 1} : writePos_ = size_ - 1 - free
    /\ silenceByte_ = PcmSilence
    /\ pack = PackInit
    /\ prod = ProdIdle
    /\ cons = ConsIdle
    /\ written = 0
    /\ popped = <<>>
    /\ life = LifeInit
    /\ work = WorkInit
    /\ gate = GateInit
    /\ epoch = EpochInit
    /\ fmt = FmtInit
    /\ ccache = CCacheInit
    /\ pcache = PCacheInit
    /\ sdk = SdkInit({24})
    /\ wake = WakeInit
    /\ ctl = CtlInit
    /\ out = OutInit
    /\ hist = HistInit
    /\ bridge = BridgeOff

NextPack ==
    \/ Push24BitPacked
    \/ setS24PackModeHint
    \/ RingClear

SpecPack == InitPack /\ [][NextPack]_vars
(***************************************************************************)
(* C1: ring SPSC soundness                                                 *)
(***************************************************************************)
\* C1: in every interleaving of one producer (push / writeToRing, any
\* lengths) and one consumer (pop, any lengths) on a ring that is neither
\* cleared nor resized, the bytes popped so far are exactly the first
\* Len(popped) bytes of the stream the pushes have reported as written: no
\* reordering, no gap, no duplicate.
C1_SpscPrefix ==
    /\ \A i \in 1..Len(popped) : popped[i] = StreamByte(i)
    /\ Len(popped) <= written

\* C1 witness: the consumer has popped more bytes than the ring holds, so the
\* positions have wrapped, while the producer is inside a call.
C1_Witness ==
    /\ Len(popped) > size_
    /\ prod.pc \in {"push_slow2", "wtr_second"}
    /\ cons.pc = "idle"


\* C4: a cycle that finds fewer than currentBytesPerBuffer bytes in the ring emits
\* silence of the cycle's size, adds one to the underrun counter and leaves the read
\* position and the ring contents as they were; the bytes that pops deliver, before
\* and after such cycles, are the unread bytes of the stream in order, none skipped
C4_UnderrunSurvives ==
    /\ [](\A i \in 1..Len(popped) : popped[i] = StreamByte(i))
    /\ [][(cons.pc = "avail" /\ cons'.pc # "avail" /\ getAvailable < cons.size)
            => /\ out' = [kind |-> "silence", byte |-> silenceByte_, size |-> cons.size,
                          reopen |-> FALSE]
               /\ gate'.m_underrunCount = gate.m_underrunCount + 1
               /\ readPos_' = readPos_
               /\ buffer_' = buffer_
               /\ cons'.pc = "idle"]_vars

\* an underrun has been counted and the pop of a later cycle has just delivered bytes
C4_Witness ==
    /\ gate.m_underrunCount > 0
    /\ cons.pc = "pop_ret"
    /\ Len(cons.dest) > 0

\* C7: whenever the last 1000 cycles of a configured PCM format are on record, their
\* sizes add up to the sample rate times the bytes per frame, which for 44100 Hz
\* with 8-byte frames is 352800 bytes
C7_ByteConservation ==
    Len(hist.sizes) = AccumulatorModulus
        => /\ SumSizes(hist.sizes) = fmt.m_sampleRate * fmt.m_bytesPerFrame
           /\ (fmt.m_sampleRate = 44100 /\ fmt.m_bytesPerFrame = 8)
                => SumSizes(hist.sizes) = 352800

\* 1000 cycles at 44100 Hz with 8-byte frames are on record, the window having moved
\* past the first cycle and the current cycle carrying the extra frame
C7_Witness ==
    /\ Len(hist.sizes) = AccumulatorModulus
    /\ hist.cycles > AccumulatorModulus + 5
    /\ fmt.m_sampleRate = 44100
    /\ fmt.m_bytesPerFrame = 8
    /\ cons.size = 360

\* the control thread is inside a reconfigure epoch: beginReconfigure() has returned
\* and endReconfigure() has not been called
InEpoch == \E t \in Threads : ctl[t].pc \in {"fr_body", "fr_end", "cr_flags", "cr_resize", "cr_end"}

\* C2: while the control thread is between beginReconfigure() returning and
\* endReconfigure(), no RingAccessGuard of the producer, the consumer or the
\* buffer-level query is active
C2_NoActiveGuardInEpoch == InEpoch => (~prod.active /\ ~cons.active)

\* C3: while m_prefillComplete is false no step of the worker moves the read
\* position or emits anything but silence of the ring's silence byte; with
\* m_prefillComplete false and no call or cycle in progress the ring holds fewer than
\* m_prefillTarget bytes; m_prefillComplete turns true only when the ring holds at
\* least m_prefillTarget bytes; and it turns false only by a step of a lifecycle call
\* (the calls that clear the ring), never by the worker or the producer
C3_PrefillGates ==
    /\ []((/\ ~gate.m_prefillComplete
           /\ prod.pc = "idle" /\ ctl["main"].pc = "idle"
           /\ cons.pc = "idle")
            => AvailableOf(writePos_, readPos_, size_) < fmt.m_prefillTarget)
    /\ [][/\ (~gate.m_prefillComplete /\ cons' # cons)
                => /\ readPos_' = readPos_
                   /\ (out' # out => (out'.kind = "silence" /\ out'.byte = silenceByte_))
          /\ (~gate.m_prefillComplete /\ gate'.m_prefillComplete)
                => AvailableOf(writePos_', readPos_', size_') >= fmt.m_prefillTarget
          /\ (gate.m_prefillComplete /\ ~gate'.m_prefillComplete)
                => (cons' = cons /\ prod' = prod /\ ctl' # ctl)]_vars

\* C8: a sendAudio call that finds m_draining set, m_stopRequested set, the SDK not
\* online or m_reconfiguring set takes its next step at once, to return 0 (through the
\* guard's bail-out when the flag is seen at the second load), and that step leaves the
\* write position, the ring contents and m_prefillComplete as they were
C8_GatedSendReturnsZero ==
    [][(/\ prod.op = "send"
        /\ prod' # prod
        /\ \/ prod.pc = "sa_drain" /\ gate.m_draining
           \/ prod.pc = "sa_stop" /\ gate.m_stopRequested
           \/ prod.pc = "sa_online" /\ ~sdk.online
           \/ prod.pc \in {"g1", "g3"} /\ epoch.m_reconfiguring
           \/ prod.pc = "g_bail")
            => /\ IF prod.pc = "g3" THEN prod'.pc = "g_bail"
                  ELSE prod'.pc = "sa_ret" /\ prod'.ret = 0
               /\ ~prod'.active
               /\ writePos_' = writePos_
               /\ buffer_' = buffer_
               /\ gate'.m_prefillComplete = gate.m_prefillComplete]_vars

\* a sendAudio call has been turned away by the reconfigure flag while the ring
\* configuration of open() holds the epoch
C8_Witness ==
    /\ prod.op = "send"
    /\ prod.pc = "sa_ret"
    /\ prod.ret = 0
    /\ epoch.m_reconfiguring
    /\ ~sdk.online
    /\ ctl["main"].pc = "cr_resize"

\* C6: every cycle the worker runs while open() of DSD64 on the adapter playing PCM
\* 44100/16/2 is on its reopenForFormatChange() path, from the SDK's reopening to the
\* return of open(), emits silence of the DSD silence byte 0x69
C6_ReopenSilence == out.reopen => (out.kind = "silence" /\ out.byte = DsdSilence)

\* the labels at which a control thread calls DIRETTA::Sync::close()
SdkClosePcs == {"td_close", "rel_close", "dis_close"}

\* C5: every step that calls DIRETTA::Sync::close() (in the format-change paths of
\* open(), in release() and in disable()) is taken with m_running false and the worker
\* thread joined, so the SDK session is never closed under a running worker
C5_CloseAfterJoin ==
    [][\A t \in Threads :
          (ctl[t].pc \in SdkClosePcs /\ ctl'[t].pc # ctl[t].pc)
              => (~work.m_running /\ work.thread = "none")]_vars

\* C9: when open() is inside a format-transition wait and disable() on the second
\* thread has stored the wake flag and notified, the wait ends, whether or not its
\* timeout ever passes
C9_DisableWakesWait ==
    (ctl["main"].pc \in WaitPcs /\ ctl["aux"].pc = "dis_open")
        ~> (ctl["main"].pc \notin WaitPcs)

\* open() has left its format-transition wait through the wake flag, before the
\* timeout, while disable() is still in progress on the second thread
C9_Witness ==
    /\ ctl["main"].pc = "td_reopen"
    /\ ctl["main"].ret = "interrupted"
    /\ ~wake.expired
    /\ ctl["aux"].pc \notin {"idle", "op_ret", "dis_notify"}

\* C10: a disable() that has been called returns
C10_DisableReturns ==
    (ctl["aux"].pc = "dis_notify") ~> (ctl["aux"].pc = "op_ret")

\* C11: when open() is inside one of its timed waits (a format-transition wait or the
\* delay before setSink) and disable() on the second thread has stored the wake flag
\* and notified, the wait ends, whether or not its time ever passes
C11_OpenWaitsInterruptible ==
    (/\ ctl["main"].pc \in (WaitPcs \cup SleepPcs)
     /\ wake.m_transitionWakeup
     /\ ctl["aux"].pc = "dis_open")
        ~> (ctl["main"].pc \notin (WaitPcs \cup SleepPcs))

\* C12: in the bridge's steady-state loop every chunk offered to sendAudio begins at
\* the pipe byte that follows the last byte the ring accepted: bytes sendAudio did not
\* accept are offered again before further pipe data, so none is dropped
C12_BackpressureWithoutLoss ==
    bridge.pc = "send" => bridge.base = written

\* C13: with the 4-byte magic at pipe bytes HeaderAt + 1 .. HeaderAt + 4, no chunk the
\* bridge reads as audio and passes to sendAudio holds a byte at or beyond the magic
C13_HeaderPreservingRead ==
    bridge.pc \in {"send", "sent"} => bridge.base + bridge.len <= HeaderAt

\* C14: when open() has succeeded, the sink is online and no stop or drain gate is
\* set, the burst-fill loop is left with m_prefillComplete true
C14_BurstFillProgress ==
    (/\ bridge.pc = "bf_done"
     /\ sdk.online
     /\ ~gate.m_draining
     /\ ~gate.m_stopRequested)
        => gate.m_prefillComplete

\* the labels of open() on its same-format path
QuickPcs == {"fp_silence", "fp_wait", "clear_w", "clear_r", "fp_prefill", "fp_rest"}

\* a step of open() on its same-format path
QuickStep ==
    /\ ctl["main"].kind = "quick"
    /\ ctl["main"].pc \in QuickPcs
    /\ ctl'["main"] # ctl["main"]

\* C15: every step of open(f) on an adapter already open with format f stays on the
\* same-format path (no SDK close, setSink or connect: the session stays open and
\* connected), clear() stores 0 to both ring positions, m_postOnlineDelayDone is left
\* as it was, and the call returns true with m_prefillComplete, m_stopRequested and
\* m_draining false and m_silenceBuffersRemaining 0
C15_SameFormatFastPath ==
    [][QuickStep =>
        /\ ctl'["main"].pc \in QuickPcs \cup {"op_ret"}
        /\ sdk'.open = sdk.open
        /\ sdk'.conn = sdk.conn
        /\ gate'.m_postOnlineDelayDone = gate.m_postOnlineDelayDone
        /\ (ctl["main"].pc = "clear_w" => writePos_' = 0)
        /\ (ctl["main"].pc = "clear_r" => readPos_' = 0)
        /\ (ctl'["main"].pc = "op_ret" =>
                /\ ctl'["main"].ret = "true"
                /\ ~gate'.m_prefillComplete
                /\ ~gate'.m_stopRequested
                /\ ~gate'.m_draining
                /\ gate'.m_silenceBuffersRemaining = 0)]_vars

\* open() has returned true from its same-format path in DSD mode, after the
\* shutdown silence, with the post-online stabilisation still done
C15_Witness ==
    /\ ctl["main"].pc = "op_ret"
    /\ ctl["main"].kind = "quick"
    /\ ctl["main"].ret = "true"
    /\ fmt.m_isDsdMode
    /\ gate.m_postOnlineDelayDone
    /\ ~gate.m_prefillComplete

\* C16: no call of open() is left by an exception: when the sink supports none of the
\* probed formats the call returns a value (false) to its caller
C16_OpenReturnsFalse ==
    \A t \in Threads : ctl[t].pc = "op_ret" => ctl[t].ret # "throw"

\* the labels of open() inside its connect sequence
ConnectPcs == {"os_prepare", "os_connect", "os_connwait"}

\* C17: a full open that leaves its connect sequence by a failure (of connectPrepare,
\* of every connect attempt, or of connectWait) has called disconnect() and returns false
C17_ConnectFailureDisconnects ==
    [][\A t \in Threads :
        (ctl[t].pc \in ConnectPcs /\ ctl'[t].pc = "op_ret")
            => (ctl'[t].ret = "false" /\ ctl'[t].disconnected)]_vars

\* the labels of close()
ClosePcs == {"cl_begin", "cl_wait", "cl_stop", "cl_active", "cl_flags"}

\* C18: no step of close() changes m_enabled or m_sdkOpen or closes the SDK session;
\* close() on an adapter that is not open returns with every variable of the adapter
\* and the ring as it was; close() on an open adapter ends with m_open, m_playing and
\* m_paused false
C18_CloseFrame ==
    [][\A t \in Threads :
        (ctl[t].pc \in ClosePcs /\ ctl'[t] # ctl[t]) =>
            /\ life'.m_enabled = life.m_enabled
            /\ life'.m_sdkOpen = life.m_sdkOpen
            /\ sdk'.open = sdk.open
            /\ (ctl[t].pc = "cl_begin" /\ ~life.m_open =>
                    /\ ctl'[t].pc = ctl[t].after
                    /\ UNCHANGED <<ringVars, dataVars, life, work, gate, epoch, fmt, ccache,
                                   pcache, sdk, wake, out, bridge>>)
            /\ (ctl'[t].pc \notin ClosePcs /\ ~(ctl[t].pc = "cl_begin" /\ ~life.m_open) =>
                    /\ ctl[t].pc = "cl_flags"
                    /\ ~life'.m_open
                    /\ ~life'.m_playing
                    /\ ~life'.m_paused)]_vars

\* close() called on an open adapter has returned: the adapter is closed, still
\* enabled, the SDK session still open
C18_Witness ==
    /\ ctl["main"].pc = "op_ret"
    /\ ctl["main"].after = "op_ret"
    /\ ctl["main"].kind = "none"
    /\ gate.m_stopRequested
    /\ ~life.m_open
    /\ ~life.m_playing
    /\ life.m_enabled
    /\ life.m_sdkOpen
    /\ sdk.open

\* C19, in its case "after close()": whenever no lifecycle call is in progress and the
\* adapter is enabled and not open with its previous format kept (it was open and
\* close() has closed it), no worker thread is running
C19_WorkerOnlyWhileOpen ==
    (/\ \A t \in Threads : ctl[t].pc = "idle"
     /\ life.m_enabled
     /\ ~life.m_open
     /\ life.m_hasPreviousFormat)
        => work.thread # "running"

\* C20: while the adapter is open in DSD mode with a format of bit rate R and no
\* lifecycle call is in progress, requestShutdownSilence(n) sets n * max(1, R / 2822400)
\* buffers, and the stabilisation target getNewStream derives from the sample rate it
\* has cached is the one of rate R
C20_DsdRateScaling ==
    (/\ \A t \in Threads : ctl[t].pc = "idle"
     /\ life.m_open
     /\ fmt.m_isDsdMode
     /\ life.m_previousFormat.isDSD)
        => LET R == life.m_previousFormat.sampleRate
           IN  /\ \A n \in {20, 30, 50} : ScaledSilence(n) = n * Max(1, R \div 2822400)
               /\ ccache.m_cachedConsumerGen = fmt.m_consumerStateGen
                    => StabilizationTarget(TRUE, ccache.m_cachedConsumerSampleRate)
                         = StabilizationTarget(TRUE, R)

(***************************************************************************)
(* C21..C30                                                                *)
(***************************************************************************)
\* the labels of getNewStream past its gates: the cycle reads the ring
PopPcs == {"avail", "pop", "pop_first", "pop_second", "pop_store", "pop_ret"}

\* C21: after a full open() of a PCM format has returned, the cycles that find
\* m_prefillComplete true emit silence exactly 20 times before the worker stores
\* m_postOnlineDelayDone = true, the store being made by the 20th of them; until that
\* store no step of the worker moves the read position, and a cycle reads the ring
\* only after it
C21_PcmStabilisation ==
    /\ [](hist.full /\ cons.pc \in PopPcs
            => gate.m_postOnlineDelayDone /\ hist.stab >= POST_ONLINE_SILENCE_BUFFERS)
    /\ [][(hist.full /\ ~gate.m_postOnlineDelayDone /\ gate'.m_postOnlineDelayDone)
            => /\ hist'.stab = POST_ONLINE_SILENCE_BUFFERS
               /\ out'.kind = "silence"]_vars
    /\ [][(hist.full /\ ~gate.m_postOnlineDelayDone /\ cons' # cons)
            => readPos_' = readPos_]_vars

\* C21 witness: a full open() has returned, 20 silence cycles followed the prefill and
\* a later cycle has popped audio
C21_Witness ==
    /\ hist.full
    /\ hist.stab = POST_ONLINE_SILENCE_BUFFERS
    /\ out.kind = "audio"
    /\ cons.pc = "idle"

\* the bit reversal of a byte, by its binary digits
RevBits(b) ==
    (b % 2) * 128 + ((b \div 2) % 2) * 64 + ((b \div 4) % 2) * 32 + ((b \div 8) % 2) * 16
    + ((b \div 16) % 2) * 8 + ((b \div 32) % 2) * 4 + ((b \div 64) % 2) * 2 + (b \div 128)

\* byte b (0..3) of the output group made from the input group at offset at, under
\* the conversion mode of the call
GroupByte(call, at, b) ==
    LET from == SrcByte(call, at + (IF Swaps(call.mode) THEN 3 - b ELSE b))
    IN  IF Reverses(call.mode) THEN RevBits(from) ELSE from

\* C22: a pushDSDPlanarOptimized call appends whole 4-byte groups only, and for
\* g = 0..k-1 the bytes appended are group g of channel 0's block, then of channel
\* 1's block, and so on, each under the conversion mode, channel c's block beginning
\* at offset c * (inputSize / numChannels) of the input, also when the free space or
\* the staging area cuts the call short
C22_PlanarGroups ==
    (prod.pc = "done" /\ prod.op = "dsd" /\ prod.call.numChannels > 0)
        => LET c == prod.call
               k == prod.ret \div (4 * c.numChannels)
               block == c.inputSize \div c.numChannels
           IN  /\ prod.ret = k * 4 * c.numChannels
               /\ Len(prod.staged) = prod.ret
               /\ \A g \in 0..(k - 1) : \A ch \in 0..(c.numChannels - 1) : \A b \in 0..3 :
                      prod.staged[(g * c.numChannels + ch) * 4 + b + 1]
                          = GroupByte(c, ch * block + 4 * g, b)

\* the four conversion modes applied to one 4-byte group q, as the claim words them
ModeGroup(mode, q) ==
    CASE mode = "Passthrough" -> q
      [] mode = "BitReverseOnly" -> <<RevBits(q[1]), RevBits(q[2]), RevBits(q[3]), RevBits(q[4])>>
      [] mode = "ByteSwapOnly" -> <<q[4], q[3], q[2], q[1]>>
      [] mode = "BitReverseAndSwap" ->
             <<RevBits(q[4]), RevBits(q[3]), RevBits(q[2]), RevBits(q[1])>>

\* what the example L = [80 40 20 10], R = [01 02 04 08] gives in each mode
ExampleOut(mode) ==
    CASE mode = "Passthrough" -> <<128, 64, 32, 16, 1, 2, 4, 8>>
      [] mode = "BitReverseOnly" -> <<1, 2, 4, 8, 128, 64, 32, 16>>
      [] mode = "ByteSwapOnly" -> <<16, 32, 64, 128, 8, 4, 2, 1>>
      [] mode = "BitReverseAndSwap" -> <<8, 4, 2, 1, 16, 32, 64, 128>>

\* C26: for a planar DSD call the ring takes whole, output group g of channel ch is
\* input group g of that channel unchanged (Passthrough), with each byte bit-reversed
\* (BitReverseOnly), with its 4 bytes in reverse order (ByteSwapOnly) or both
\* (BitReverseAndSwap), in the scalar and in the AVX2 build; and the example
\* L = 80 40 20 10, R = 01 02 04 08 gives the four byte strings of the claim
C26_DsdModes ==
    (prod.pc = "done" /\ prod.op = "dsd" /\ prod.call.numChannels > 0
        /\ prod.call.inputSize > 0 /\ prod.ret = prod.call.inputSize)
        => LET c == prod.call
               block == c.inputSize \div c.numChannels
               in(ch, g) == [b \in 1..4 |-> SrcByte(c, ch * block + 4 * g + b - 1)]
               at(ch, g) == (g * c.numChannels + ch) * 4
           IN  /\ \A g \in 0..((block \div 4) - 1) : \A ch \in 0..(c.numChannels - 1) :
                      SubSeq(prod.staged, at(ch, g) + 1, at(ch, g) + 4)
                          = ModeGroup(c.mode, in(ch, g))
               /\ c.example => prod.staged = ExampleOut(c.mode)

\* C26 witness: the example has been pushed in BitReverseAndSwap mode by the AVX2 build
C26_Witness ==
    /\ prod.pc = "done"
    /\ prod.op = "dsd"
    /\ prod.call.example
    /\ prod.call.avx2
    /\ prod.call.mode = "BitReverseAndSwap"
    /\ prod.staged = <<8, 4, 2, 1, 16, 32, 64, 128>>

\* the labels of a push() call between its entry and its return
PushPcs == {"push_region", "push_commit", "push_slow", "push_slow2", "push_store"}

\* the bytes a ring of size_ bytes can still take: its capacity size_ - 1 less the
\* bytes between the read and the write position
RoomLeft == size_ - 1 - ((writePos_ - readPos_) % size_)

\* C27: push(n) takes w = min(n, free space when it is called) bytes and returns w;
\* no step of it waits for the consumer; and when w < n the free space at the call
\* was w and, if no pop has moved the read position during the call, the free space
\* after it is 0
C27_PushTruncates ==
    /\ [][(prod.pc = "idle" /\ prod'.fn = "push")
            => /\ prod'.free = RoomLeft
               /\ prod'.len = Min(prod'.n, RoomLeft)]_vars
    /\ []((prod.fn = "push" /\ prod.pc \in PushPcs)
            => ENABLED (PushRegion \/ PushCommit \/ PushSlowFirst \/ PushSlowSecond
                        \/ PushSlowStore))
    /\ []((prod.fn = "push" /\ prod.pc = "push_ret")
            => /\ prod.ret = Min(prod.n, prod.free)
               /\ prod.ret < prod.n
                    => /\ prod.free = prod.ret
                       /\ readPos_ = prod.rp => RoomLeft = 0)

\* C27 witness: a push of more bytes than the ring had room for has returned a
\* non-zero count smaller than asked, with no pop in between, and the ring is full
C27_Witness ==
    /\ prod.fn = "push"
    /\ prod.pc = "push_ret"
    /\ prod.ret > 0
    /\ prod.ret < prod.n
    /\ readPos_ = prod.rp
    /\ cons.pc = "idle"
    /\ RoomLeft = 0

\* the layouts a decision can name
Layouts == {"LsbAligned", "MsbAligned"}

\* C23: once a layout has been decided and confirmed, m_s24PackMode keeps that layout
\* through every later push24BitPacked and setS24PackModeHint call until the ring is
\* cleared
C23_DecisionSticky ==
    (hist.decided \in Layouts) => pack.m_s24PackMode = hist.decided

\* the samples detection looks at in the push that has just returned: all of them
\* are zero in byte 0, in byte 3, in all four bytes
Inspected == 0..(Min(prod.n, DETECT_SAMPLES) - 1)
ZeroAt(b) == \A i \in Inspected : Sample(prod.call, i)[b] = 0
AllZero == \A i \in Inspected : Sample(prod.call, i) = <<0, 0, 0, 0>>

\* a push24BitPacked call that took samples has just returned
Pushed24 == prod.pc = "done" /\ prod.op = "s24" /\ prod.n > 0

\* C24: a push made before a decision is confirmed whose inspected samples are all
\* zero leaves the mode as it was and adds its samples to the count of zero samples,
\* up to 48000 of them; the push that brings the count to 48001 or more commits the
\* mode to the hint if one is set and to LsbAligned otherwise; and a push made before
\* that commit whose inspected samples are not all zero decides the layout from the
\* samples, whatever the hint
C24_DeferredTimeout ==
    [][(~pack.m_s24DetectionConfirmed /\ Pushed24' /\ prod' # prod)
        => LET count == pack.m_deferredSampleCount + prod'.n
           IN  /\ (AllZero' /\ count <= DEFERRED_TIMEOUT_SAMPLES)
                    => /\ pack'.m_s24PackMode = pack.m_s24PackMode
                       /\ ~pack'.m_s24DetectionConfirmed
                       /\ pack'.m_deferredSampleCount = count
               /\ (AllZero' /\ count > DEFERRED_TIMEOUT_SAMPLES)
                    => /\ pack'.m_s24DetectionConfirmed
                       /\ pack'.m_s24PackMode = IF pack.m_s24Hint \in Layouts
                                                THEN pack.m_s24Hint ELSE "LsbAligned"
               /\ ~AllZero'
                    => /\ pack'.m_s24DetectionConfirmed
                       /\ pack'.m_s24PackMode \in Layouts
                       /\ (ZeroAt(1)' /\ ~ZeroAt(4)') => pack'.m_s24PackMode = "MsbAligned"
                       /\ ~ZeroAt(1)' => pack'.m_s24PackMode = "LsbAligned"]_vars

\* sample i (from 0) of the staged runs of the push that has just returned
RECURSIVE RunAt(_, _)
RunAt(runs, i) == IF i < runs[1][1] THEN runs[1][2] ELSE RunAt(Tail(runs), i - runs[1][1])
RECURSIVE RunTotal(_)
RunTotal(runs) == IF runs = <<>> THEN 0 ELSE runs[1][1] + RunTotal(Tail(runs))

\* C25: a push24BitPacked call that finds the mode Unknown or Deferred and takes n
\* samples decides from its first min(n, 64) samples: byte 0 zero in all of them and
\* byte 3 not gives MsbAligned, byte 3 zero in all and byte 0 not gives LsbAligned,
\* both non-zero somewhere gives LsbAligned; and the n samples of that call are staged
\* as bytes 1, 2, 3 of each under MsbAligned and as bytes 0, 1, 2 under LsbAligned
\* (every sample of calls of up to 65 samples; the first, the last and the samples on
\* both sides of the change of content of longer calls)
C25_DetectionRule ==
    [][(pack.m_s24PackMode \in {"Unknown", "Deferred"} /\ Pushed24' /\ prod' # prod)
        => LET c == prod'.call
               n == prod'.n
               looked == IF n <= 65 THEN 0..(n - 1)
                         ELSE {i \in {0, c.k - 1, c.k, n - 1} : i >= 0 /\ i < n}
               decided == ~(ZeroAt(1)' /\ ZeroAt(4)')
           IN  /\ (ZeroAt(1)' /\ ~ZeroAt(4)') => pack'.m_s24PackMode = "MsbAligned"
               /\ (ZeroAt(4)' /\ ~ZeroAt(1)') => pack'.m_s24PackMode = "LsbAligned"
               /\ (~ZeroAt(1)' /\ ~ZeroAt(4)') => pack'.m_s24PackMode = "LsbAligned"
               /\ decided => /\ pack'.m_s24DetectionConfirmed
                             /\ RunTotal(prod'.staged) = n
                             /\ \A i \in looked :
                                    RunAt(prod'.staged, i)
                                        = IF pack'.m_s24PackMode = "MsbAligned"
                                          THEN <<Sample(c, i)[2], Sample(c, i)[3], Sample(c, i)[4]>>
                                          ELSE <<Sample(c, i)[1], Sample(c, i)[2], Sample(c, i)[3]>>]_vars

\* C25 witness: the first call on a cleared ring brought 65 samples, 64 with data in
\* bytes 1..3 and then one with data in bytes 0..2; the mode is MsbAligned and all
\* 65 samples are staged as their bytes 1, 2, 3
C25_Witness ==
    /\ Pushed24
    /\ hist.sends = 1
    /\ prod.call = [n |-> 65, k |-> 64, head |-> "msb", tail |-> "lsb"]
    /\ prod.n = 65
    /\ pack.m_s24PackMode = "MsbAligned"
    /\ pack.m_s24DetectionConfirmed
    /\ prod.staged = <<<<64, <<18, 35, 52>>>>, <<1, <<34, 51, 0>>>>>>

\* a step of clear() or resize() on the ring by a control thread: the two stores of
\* an m_ringBuffer.clear() called from open() or resumePlayback(), the clear() of
\* fullReset() and the resize() of configureRingPCM / configureRingDSD
RingResetStep ==
    \E t \in Threads : /\ ctl[t].pc \in {"clear_w", "clear_r", "fr_body", "cr_resize"}
                       /\ ctl'[t].pc # ctl[t].pc

\* C28: every step of a clear() or resize() of the ring made by the adapter is taken
\* with m_reconfiguring set and m_ringUsers = 0, and while neither a pop of the
\* consumer nor a push of the producer is under way
C28_ResetInsideEpoch ==
    [][RingResetStep => /\ epoch.m_reconfiguring
                        /\ epoch.m_ringUsers = 0
                        /\ cons.pc \notin PopPcs
                        /\ prod.pc \notin PushPcs \cup {"wtr_second", "wtr_store"}]_vars

\* C30: m_prefillComplete turns from false to true only in a state where the ring
\* holds at least m_prefillTarget bytes and the producer has pushed at least that many
\* bytes since the most recent clear of the ring began, whatever the interleaving of
\* sendAudio, the worker's cycle and open() / resumePlayback()
C30_PrefillFromFreshBytes ==
    [][(~gate.m_prefillComplete /\ gate'.m_prefillComplete)
        => /\ getAvailable >= fmt.m_prefillTarget
           /\ written - hist.mark >= fmt.m_prefillTarget]_vars

\* the values getNewStream and sendAudio keep in their caches, as they are live
LiveConsumer == ReloadConsumer(fmt.m_consumerStateGen)
LiveProducer == ReloadProducer(fmt.m_formatGeneration)

\* C29: once open() has returned, a consumer cache that carries the live generation
\* number holds the live bytes per cycle, silence byte, frame remainder, bytes per
\* frame and DSD flag, and a producer cache that carries the live generation number
\* holds the live conversion flags, channels and sample width: so the first cycle
\* and the first sendAudio call after a format change use the new format's values
C29_CacheCoherent ==
    (ctl["main"].pc = "idle")
        => /\ (ccache.m_cachedConsumerGen = fmt.m_consumerStateGen) => ccache = LiveConsumer
           /\ (pcache.m_cachedFormatGen = fmt.m_formatGeneration) => pcache = LiveProducer
(***************************************************************************)
(* LogRing: the global ring of log entries, pushed by DIRETTA_LOG_ASYNC in  *)
(* sendAudio (producer thread) and in getNewStream (worker thread), and     *)
(* popped by the caller of pop()                                            *)
(***************************************************************************)
\* CAPACITY, scaled (a power of 2), and the messages each pushing thread logs
LogCapacity == 4
LogPushes == 2

LogThreads == {"sendAudio", "getNewStream"}
LogIdle == [pc |-> "idle", wp |-> 0, rp |-> 0, left |-> LogPushes]

\* the ring as the constructor leaves it, the three threads outside any call, and
\* what is remembered of the past: accepted (the messages whose push returned true),
\* dropped (those whose push returned false) and got (the entries pop returned)
LogInit ==
    [pc |-> "log", m_entries |-> [i \in 0..(LogCapacity - 1) |-> <<>>],
     m_writePos |-> 0, m_readPos |-> 0,
     push |-> [t \in LogThreads |-> LogIdle],
     pop |-> [pc |-> "idle", wp |-> 0, rp |-> 0],
     accepted |-> {}, dropped |-> {}, got |-> <<>>]

\* (x + 1) & MASK
LogNext(x) == (x + 1) % LogCapacity

\* the message thread t is logging: its name and the count it carries
LogMessage(t) == <<t, LogPushes - bridge.push[t].left + 1>>

\* push(): wp = m_writePos.load(relaxed)
LogPushLoadWrite(t) ==
    /\ bridge.pc = "log"
    /\ bridge.push[t].pc = "idle"
    /\ bridge.push[t].left > 0
    /\ bridge' = [bridge EXCEPT !.push[t].pc = "rp", !.push[t].wp = bridge.m_writePos]
    /\ UNCHANGED <<ringVars, dataVars, adapterVars>>

\* push(): rp = m_readPos.load(acquire), and the full test: a full ring drops the
\* message and returns false
LogPushLoadRead(t) ==
    /\ bridge.pc = "log"
    /\ bridge.push[t].pc = "rp"
    /\ bridge' = IF LogNext(bridge.push[t].wp) = bridge.m_readPos
                 THEN [bridge EXCEPT !.push[t].pc = "idle",
                                     !.push[t].left = bridge.push[t].left - 1,
                                     !.dropped = bridge.dropped \cup {LogMessage(t)}]
                 ELSE [bridge EXCEPT !.push[t].pc = "copy",
                                     !.push[t].rp = bridge.m_readPos]
    /\ UNCHANGED <<ringVars, dataVars, adapterVars>>

\* push(): the timestamp and strncpy into m_entries[wp]
LogPushCopy(t) ==
    /\ bridge.pc = "log"
    /\ bridge.push[t].pc = "copy"
    /\ bridge' = [bridge EXCEPT !.push[t].pc = "store",
                                !.m_entries[bridge.push[t].wp] = LogMessage(t)]
    /\ UNCHANGED <<ringVars, dataVars, adapterVars>>

\* push(): m_writePos.store((wp + 1) & MASK, release); return true
LogPushStore(t) ==
    /\ bridge.pc = "log"
    /\ bridge.push[t].pc = "store"
    /\ bridge' = [bridge EXCEPT !.push[t].pc = "idle",
                                !.push[t].left = bridge.push[t].left - 1,
                                !.m_writePos = LogNext(bridge.push[t].wp),
                                !.accepted = bridge.accepted \cup {LogMessage(t)}]
    /\ UNCHANGED <<ringVars, dataVars, adapterVars>>

\* pop(): rp = m_readPos.load(relaxed)
LogPopLoadRead ==
    /\ bridge.pc = "log"
    /\ bridge.pop.pc = "idle"
    /\ bridge.m_readPos # bridge.m_writePos \/ \E t \in LogThreads : bridge.push[t].left > 0
    /\ bridge' = [bridge EXCEPT !.pop.pc = "wp", !.pop.rp = bridge.m_readPos]
    /\ UNCHANGED <<ringVars, dataVars, adapterVars>>

\* pop(): wp = m_writePos.load(acquire), and the empty test
LogPopLoadWrite ==
    /\ bridge.pc = "log"
    /\ bridge.pop.pc = "wp"
    /\ bridge' = IF bridge.pop.rp = bridge.m_writePos
                 THEN [bridge EXCEPT !.pop.pc = "idle"]
                 ELSE [bridge EXCEPT !.pop.pc = "copy", !.pop.wp = bridge.m_writePos]
    /\ UNCHANGED <<ringVars, dataVars, adapterVars>>

\* pop(): entry = m_entries[rp]
LogPopCopy ==
    /\ bridge.pc = "log"
    /\ bridge.pop.pc = "copy"
    /\ bridge' = [bridge EXCEPT !.pop.pc = "store",
                                !.got = Append(bridge.got, bridge.m_entries[bridge.pop.rp])]
    /\ UNCHANGED <<ringVars, dataVars, adapterVars>>

\* pop(): m_readPos.store((rp + 1) & MASK, release); return true
LogPopStore ==
    /\ bridge.pc = "log"
    /\ bridge.pop.pc = "store"
    /\ bridge' = [bridge EXCEPT !.pop.pc = "idle", !.m_readPos = LogNext(bridge.pop.rp)]
    /\ UNCHANGED <<ringVars, dataVars, adapterVars>>

InitLog ==
    /\ Playing(PCM44, {32}, 0)
    /\ hist = HistInit
    /\ bridge = LogInit

NextLog ==
    \/ \E t \in LogThreads : LogPushLoadWrite(t)
    \/ \E t \in LogThreads : LogPushLoadRead(t)
    \/ \E t \in LogThreads : LogPushCopy(t)
    \/ \E t \in LogThreads : LogPushStore(t)
    \/ LogPopLoadRead
    \/ LogPopLoadWrite
    \/ LogPopCopy
    \/ LogPopStore

SpecLog == InitLog /\ [][NextLog]_vars

(***************************************************************************)
(* The wrapper's format detection: monitor_squeezelite_stderr on its own    *)
(* thread and the reopen test at the top of main()'s streaming loop         *)
(***************************************************************************)
\* the sample rates squeezelite reports and the number of log lines it writes
MonRates == {44100, 88200}
MonLines == 3

\* the log lines the monitor's regular expressions match
MonLineKinds ==
    [kind : {"dsd_decode"}, format : {"U32_BE", "U32_LE"}, rate : MonRates]
        \cup [kind : {"dop_decode"}, format : {"DOP"}, rate : MonRates]
        \cup [kind : {"dsd_format"}, format : {"DOP", "U32_BE", "U32_LE"}, rate : {0}]
        \cup [kind : {"dop_contains", "pcm_codec"}, format : {"NONE"}, rate : {0}]
        \cup [kind : {"sample_rate"}, format : {"NONE"}, rate : MonRates]

\* the globals (g_*), the monitor thread (todo: the stores it has still to make for
\* the line it is processing; lines: the lines squeezelite has still to write), the
\* main loop (pc and the locals squeezelite_rate, is_dsd, dsd_format), and what is
\* remembered of the past: asked (the monitor has stored g_need_reopen = true) and
\* opened (the values behind the last open() of the loop)
MonitorInit ==
    [pc |-> "loop", g_current_sample_rate |-> 0, g_is_dsd |-> FALSE,
     g_dsd_format_type |-> "NONE", g_need_reopen |-> FALSE, g_format_pending |-> FALSE,
     todo |-> <<>>, lines |-> MonLines,
     squeezelite_rate |-> 0, is_dsd |-> FALSE, dsd_format |-> "NONE",
     asked |-> FALSE, opened |-> [rate |-> 44100, is_dsd |-> FALSE, type |-> "NONE"]]

\* the stores the monitor makes for one line, in program order.  The loads it makes
\* on the way (g_is_dsd, g_current_sample_rate, g_format_pending) read variables that
\* only the monitor thread writes, so their values are those of the moment the line
\* is taken up
MonStores(line) ==
    CASE line.kind \in {"dsd_decode", "dop_decode"} ->
            << <<"g_dsd_format_type", line.format>>, <<"g_is_dsd", TRUE>>,
               <<"g_current_sample_rate", line.rate>>, <<"g_format_pending", FALSE>>,
               <<"g_need_reopen", TRUE>> >>
      [] line.kind = "dsd_format" ->
            IF bridge.g_is_dsd THEN <<>>
            ELSE << <<"g_dsd_format_type", line.format>>, <<"g_is_dsd", TRUE>>,
                    <<"g_format_pending", TRUE>> >>
      [] line.kind = "dop_contains" ->
            IF bridge.g_is_dsd THEN <<>>
            ELSE << <<"g_dsd_format_type", "DOP">>, <<"g_is_dsd", TRUE>>,
                    <<"g_format_pending", TRUE>> >>
      [] line.kind = "pcm_codec" ->
            IF ~bridge.g_is_dsd THEN <<>>
            ELSE << <<"g_is_dsd", FALSE>>, <<"g_dsd_format_type", "NONE">>,
                    <<"g_format_pending", TRUE>> >>
      [] line.kind = "sample_rate" ->
            IF line.rate # bridge.g_current_sample_rate \/ bridge.g_format_pending
            THEN << <<"g_current_sample_rate", line.rate>>, <<"g_format_pending", FALSE>>,
                    <<"g_need_reopen", TRUE>> >>
            ELSE <<>>

\* the monitor takes the next complete line off line_buffer
MonLine ==
    /\ bridge.pc # "off"
    /\ bridge.todo = <<>>
    /\ bridge.lines > 0
    /\ \E line \in MonLineKinds :
          bridge' = [bridge EXCEPT !.todo = MonStores(line), !.lines = bridge.lines - 1]
    /\ UNCHANGED <<ringVars, dataVars, adapterVars>>

\* the monitor makes its next store
MonStore ==
    /\ bridge.pc # "off"
    /\ bridge.todo # <<>>
    /\ LET s == Head(bridge.todo)
       IN  bridge' = [bridge EXCEPT ![s[1]] = s[2], !.todo = Tail(bridge.todo),
                                    !.asked = bridge.asked \/ s[1] = "g_need_reopen"]
    /\ UNCHANGED <<ringVars, dataVars, adapterVars>>

\* while (running): if (g_need_reopen.load())
MainTest ==
    /\ bridge.pc = "loop"
    /\ bridge.g_need_reopen
    /\ bridge' = [bridge EXCEPT !.pc = "ld_rate"]
    /\ UNCHANGED <<ringVars, dataVars, adapterVars>>

\* squeezelite_rate = g_current_sample_rate.load()
MainLoadRate ==
    /\ bridge.pc = "ld_rate"
    /\ bridge' = [bridge EXCEPT !.pc = "ld_dsd",
                                !.squeezelite_rate = bridge.g_current_sample_rate]
    /\ UNCHANGED <<ringVars, dataVars, adapterVars>>

\* is_dsd = g_is_dsd.load()
MainLoadDsd ==
    /\ bridge.pc = "ld_dsd"
    /\ bridge' = [bridge EXCEPT !.pc = "ld_type", !.is_dsd = bridge.g_is_dsd]
    /\ UNCHANGED <<ringVars, dataVars, adapterVars>>

\* dsd_format = g_dsd_format_type.load()
MainLoadType ==
    /\ bridge.pc = "ld_type"
    /\ bridge' = [bridge EXCEPT !.pc = "clear", !.dsd_format = bridge.g_dsd_format_type]
    /\ UNCHANGED <<ringVars, dataVars, adapterVars>>

\* g_need_reopen.store(false)
MainClear ==
    /\ bridge.pc = "clear"
    /\ bridge' = [bridge EXCEPT !.pc = "open", !.g_need_reopen = FALSE]
    /\ UNCHANGED <<ringVars, dataVars, adapterVars>>

\* the drain of the pipe, g_diretta->open(format) with the format made of the three
\* locals, and the burst fill; when open() fails the loop is left
MainOpen ==
    /\ bridge.pc = "open"
    /\ \E ok \in BOOLEAN :
          bridge' = [bridge EXCEPT !.pc = IF ok THEN "loop" ELSE "stopped",
                                   !.opened = [rate |-> bridge.squeezelite_rate,
                                               is_dsd |-> bridge.is_dsd,
                                               type |-> bridge.dsd_format]]
    /\ UNCHANGED <<ringVars, dataVars, adapterVars>>

InitMonitor ==
    /\ Playing(PCM44, {32}, 0)
    /\ hist = HistInit
    /\ bridge = MonitorInit

NextMonitor ==
    \/ MonLine
    \/ MonStore
    \/ MainTest
    \/ MainLoadRate
    \/ MainLoadDsd
    \/ MainLoadType
    \/ MainClear
    \/ MainOpen

SpecMonitor == InitMonitor /\ [][NextMonitor]_vars

(***************************************************************************)
(* Claims C31..C40                                                         *)
(***************************************************************************)
\* open() on the control thread has been woken out of its format-transition wait by
\* the wake flag and has not returned yet
WokenOpen ==
    /\ ctl["main"].ret = "interrupted"
    /\ ctl["main"].pc \notin {"idle", "op_ret"} \cup WaitPcs

\* C31: an open() that disable() has woken out of its format-transition wait does
\* nothing more than return: its next step is its return, and no step taken while it
\* is in that state opens the SDK session, connects it or starts a worker
C31_DisableCancelsOpen ==
    [][WokenOpen =>
          /\ ctl'["main"].pc \in {ctl["main"].pc, "op_ret"}
          /\ sdk'.open => sdk.open
          /\ sdk'.conn => sdk.conn
          /\ work'.m_running => work.m_running]_vars

\* the values the monitor stored last
MonCurrent == [rate |-> bridge.g_current_sample_rate, is_dsd |-> bridge.g_is_dsd,
               type |-> bridge.g_dsd_format_type]

\* C32: no request of the monitor is lost: when the monitor has made all the stores
\* of a request (and none of a format line that still waits for its sample rate), and
\* the main loop is back at the top of its loop with g_need_reopen false, the last
\* open() of the loop was made with the rate, DSD flag and DSD type stored last
C32_ReopenNotLost ==
    (/\ bridge.pc = "loop"
     /\ bridge.asked
     /\ bridge.todo = <<>>
     /\ ~bridge.g_need_reopen
     /\ ~bridge.g_format_pending)
        => bridge.opened = MonCurrent

\* control thread t is at the return of an open() that returns false
OpenFailed(t) ==
    /\ ctl[t].pc = "op_ret"
    /\ ctl[t].ret = "false"
    /\ ctl[t].format # NoFormat

\* C33: when open() returns false, m_open and m_playing are false and m_sdkOpen is
\* true only if the SDK session is open
C33_FailedOpenFlags ==
    OpenFailed("main") =>
        /\ ~life.m_open
        /\ ~life.m_playing
        /\ life.m_sdkOpen => sdk.open

\* C34: while no playback call is in progress and the adapter is open, playing and
\* not paused, m_draining is false, so sendAudio is not turned away by the draining
\* a stopPlayback() before the last startPlayback() had requested
C34_StartEndsDraining ==
    (/\ ctl["main"].pc = "idle"
     /\ life.m_open
     /\ life.m_playing
     /\ ~life.m_paused)
        => ~gate.m_draining

\* bytes of one output frame of the format being played
FrameBytes == pcache.m_cachedBytesPerSample * pcache.m_cachedChannels

\* C35: the number of bytes a sendAudio call has appended to the ring is a whole
\* number of output frames
C35_WholeFrames ==
    (prod.op = "send" /\ prod.pc = "sa_ret") => prod.ret % FrameBytes = 0

\* C36: with disable() called only between the other calls of the control thread,
\* never during a wait, every format-transition wait of open() lasts its full
\* timeout: none is ended by the wake flag
C36_WakeNotStale ==
    ctl["main"].ret # "interrupted"

\* the entries pop has returned, as a set
LogGot == {bridge.got[i] : i \in 1..Len(bridge.got)}

\* every push and pop has returned and the ring is empty
LogQuiet ==
    /\ \A t \in LogThreads : bridge.push[t].pc = "idle" /\ bridge.push[t].left = 0
    /\ bridge.pop.pc = "idle"
    /\ bridge.m_readPos = bridge.m_writePos

\* C37: pop returns only messages that were pushed, none of them twice, and those
\* of one thread in the order that thread pushed them; it returns no message whose
\* push returned false; and once the ring has been drained the entries returned are
\* exactly the messages whose push returned true
C37_LogRingDelivers ==
    /\ \A i \in 1..Len(bridge.got) : bridge.got[i] # <<>>
    /\ \A i, j \in 1..Len(bridge.got) :
          /\ i # j => bridge.got[i] # bridge.got[j]
          /\ (i < j /\ bridge.got[i][1] = bridge.got[j][1])
                => bridge.got[i][2] < bridge.got[j][2]
    /\ LogGot \cap bridge.dropped = {}
    /\ LogQuiet => LogGot = bridge.accepted

\* the ring positions that hold unread bytes
Unread == {AndMask(readPos_ + k, size_) : k \in 0..(getAvailable - 1)}

\* C38: after getDirectWriteRegion succeeded and reported available bytes, writing
\* and committing any count up to available leaves every unread byte as it was and
\* makes getAvailable() larger by exactly that count
C38_DirectWriteSafe ==
    [][/\ (prod.pc = "dw_write" /\ prod'.pc = "dw_commit")
            => \A i \in Unread : buffer_'[i] = buffer_[i]
       /\ (prod.pc = "dw_commit" /\ prod'.pc = "push_ret")
            => AvailableOf(writePos_', readPos_, size_)
                   = AvailableOf(writePos_, readPos_, size_) + prod.len]_vars

\* size is 2^k for some k
IsPow2(size) == \E k \in 0..OccRequest : size = 2 ^ k

\* C39: after any sequence of resize, clear, push, writeToRing and pop, and at every
\* step inside them, size_ is a power of two, both positions are in 0..size_-1,
\* getAvailable() + getFreeSpace() = size_ - 1, and the positions are equal exactly
\* when every byte pushed since the ring was last emptied has been popped
C39_RingOccupancy ==
    /\ IsPow2(size_)
    /\ writePos_ \in 0..(size_ - 1)
    /\ readPos_ \in 0..(size_ - 1)
    /\ getAvailable + getFreeSpace = size_ - 1
    /\ (writePos_ = readPos_) <=> (written = Len(popped))

\* C39 witness: a resized ring (8 bytes, not the 4 it began with) that is full, with
\* the write position wrapped to just below the read position
C39_Witness ==
    /\ size_ = 8
    /\ getFreeSpace = 0
    /\ writePos_ < readPos_
    /\ Len(popped) > 0

\* no control thread is inside a lifecycle call
NoCallInProgress == \A t \in Threads : ctl[t].pc = "idle"

\* C40: whenever no lifecycle call is in progress, m_paused implies m_playing,
\* m_playing implies m_open, and m_open implies m_enabled and m_sdkOpen
C40_FlagsConsistent ==
    NoCallInProgress
        => /\ life.m_paused => life.m_playing
           /\ life.m_playing => life.m_open
           /\ life.m_open => (life.m_enabled /\ life.m_sdkOpen)

=============================================================================
